---- MODULE Spec2Model ----
(***************************************************************************)
(* Session management and login-attempt tracking of the authentication     *)
(* core (backend/auth/session_management.py, login_attempt_tracker.py).    *)
(*                                                                         *)
(* SessionManager: request threads call create_session, validate_session   *)
(* and _invalidate_session on the class-level table _sessions, guarded by  *)
(* the class-level threading.Lock _session_lock, which is not re-entrant.  *)
(* The session clock counts hours: SESSION_TIMEOUT = timedelta(hours=2).   *)
(*                                                                         *)
(* LoginAttemptTracker: record_login_attempt, is_account_locked and        *)
(* reset_login_attempts on the class-level defaultdict _login_attempts.    *)
(* The tracker clock counts 5-minute steps: LOCKOUT_DURATION =             *)
(* timedelta(minutes=15) is 3 steps.                                       *)
(***************************************************************************)
EXTENDS Integers, Sequences, FiniteSets, TLC

\* ---------------------------------------------------------------- bounds
MaxTime == 3        \* last value of the session clock (hours)
MaxTokens == 4      \* number of uuid4 tokens drawn
MaxClock == 3       \* last value of the tracker clock (5-minute steps)
MaxHistory == 6     \* most attempts held in _login_attempts
MaxCalls == 5       \* record_login_attempt calls of the threaded specification
MaxEpoch == 4       \* last value of the token clock (half hours)
MaxPasswordLen == 14 \* most characters of a password
MaxSteps == 3       \* steps of 30 s the TOTP clock moves on
MaxRecorded == 5    \* most attempts the reference tracker is given
FirstStep == 3      \* time.time() // 30 at the start: more steps than any window

Threads == {"t1", "t2"}
MainThread == "t1"
Users == {"u1", "u2"}
TokenIds == 1..MaxTokens
Usernames == {"alice", "bob"}

\* ------------------------------------------------------ program constants
SESSION_TIMEOUT == 2
MAX_CONCURRENT_SESSIONS == 3
MAX_ATTEMPTS == 5
LOCKOUT_DURATION == 3

NoUser == "none"
NoToken == 0
Free == "free"
None == 0       \* a call returning None instead of a session
NoReturn == [call |-> "none", session_token |-> NoToken, value |-> None]
NoAnswer == [call |-> "none", username |-> NoUser, value |-> FALSE]

VARIABLES
    sessions,       \* _sessions: the session records in dict insertion order
    session_lock,   \* _session_lock: Free or the thread holding it
    now,            \* datetime.now() of the session code, in hours
    next_token,     \* the next uuid4 value
    pc,             \* per thread: where it is in a SessionManager call
    local,          \* per thread: arguments and locals of its call
    ret,            \* what validate_session returned in the step just taken
    login_attempts, \* _login_attempts: username -> list of attempts
    clock,          \* datetime.now() of the tracker code, in 5-minute steps
    locked          \* what is_account_locked returned in the step just taken

VARIABLES
    record_calls    \* the threads inside record_login_attempt, and the calls done

\* per thread: where it is in record_login_attempt, and its locals
recording == record_calls.recording
\* how often each attempt was recorded by a call that has returned
returned == record_calls.returned

\* a thread outside record_login_attempt has no locals
NoRecording == [at |-> "idle"]

session_vars == <<sessions, session_lock, now, next_token, pc, local, ret>>
tracker_vars == <<login_attempts, clock, locked>>
VARIABLES
    rbac            \* the RoleBasedAccessControl call just made and its result

\* the step just taken was no call of the class, so there is no result
NoCall == [op |-> "none"]

VARIABLES
    jwt             \* the world of JWTMiddleware: clock, request, last answers

\* time.time() of the token code, in half hours
epoch == jwt.epoch
\* the Authorization header of the request, split at ' '
wire == jwt.wire
\* the last generate_token call: its arguments and result
issued == jwt.issued
\* what decode_token or the route guard answered just now
response == jwt.response

\* the parts of an Authorization header: '', the word Bearer, or a token
NoClaims == [user_id |-> NoUser, roles |-> <<>>, exp |-> 0]
NoSignature == [key |-> "", alg |-> "", payload |-> NoClaims]
EmptyPart == [form |-> "empty"]
BearerPart == [form |-> "word"]
NoIssue == [user_id |-> NoUser, roles |-> <<>>, at |-> 0, token |-> EmptyPart]
\* a response with nothing decoded, no user attached to the request and
\* the route not called
NoResponse == [op |-> "none", outcome |-> "none", claims |-> NoClaims,
               required_roles |-> <<>>, status |-> 0, body |-> "", user |-> NoClaims,
               called |-> FALSE]

VARIABLES
    validator       \* the password at hand and the validator's last answer

\* the password typed so far, a sequence of characters
password == validator.password
\* the PasswordStrengthValidator call just made and its result
assessment == validator.assessment

VARIABLES
    factors         \* the worlds of PasswordUtils and of TwoFactorAuth

\* the password digest the credential store holds
digest == factors.digest
\* time.time() of pyotp, in steps of 30 s
steps == factors.steps
\* the code the user typed into the login form
user_code == factors.user_code
\* the PasswordUtils or TwoFactorAuth call just made and its result
verdict == factors.verdict

\* no digest stored, no code typed
NoDigest == [form |-> "empty"]
NoCode == [form |-> "empty"]

VARIABLES
    reference       \* a tracker that never prunes: username -> all attempts

race_vars == <<record_calls>>
rbac_vars == <<rbac>>
token_vars == <<jwt>>
password_vars == <<validator>>
factor_vars == <<factors>>
reference_vars == <<reference>>
core_vars == <<session_vars, tracker_vars, race_vars>>
outside_auth == <<rbac_vars, token_vars, password_vars, factor_vars>>
outside_password == <<core_vars, rbac_vars, token_vars, factor_vars, reference_vars>>
outside_session == <<tracker_vars, race_vars, outside_auth, reference_vars>>
outside_tracker == <<session_vars, race_vars, outside_auth>>
outside_race == <<session_vars, outside_auth, reference_vars>>
outside_rbac == <<core_vars, token_vars, password_vars, factor_vars, reference_vars>>
outside_token == <<core_vars, rbac_vars, password_vars, factor_vars, reference_vars>>
outside_factors == <<core_vars, rbac_vars, token_vars, password_vars, reference_vars>>
vars == <<sessions, session_lock, now, next_token, pc, local, ret,
          login_attempts, clock, locked, record_calls, rbac, jwt, validator,
          factors, reference>>

\* ===================================================== SessionManager
Keys(S) == {S[i].token : i \in DOMAIN S}

\* cls._sessions.get(session_token): <<>> for None
dict_get(S, tok) == LET hit == SelectSeq(S, LAMBDA r : r.token = tok)
                    IN  IF hit = <<>> THEN <<>> ELSE <<hit[1]>>

\* a delete that drops every session of the token's owner
dict_del_owner(S, tok) ==
    SelectSeq(S, LAMBDA r : \A x \in DOMAIN S : S[x].token = tok => S[x].user_id # r.user_id)

\* del cls._sessions[tok]
dict_del(S, tok) == SelectSeq(S, LAMBDA r : r.token # tok)

\* a sliding expiry: the age counted from the last use
is_expired_sliding(session, tnow) == tnow - session.last_activity > SESSION_TIMEOUT

\* now - session['created_at'] > cls.SESSION_TIMEOUT
is_expired(session, tnow) == tnow - session.created_at > SESSION_TIMEOUT

\* a purge that also takes the sessions exactly SESSION_TIMEOUT old
cleanup_expired_sessions_eager(S, user_id, tnow) ==
    SelectSeq(S, LAMBDA r : ~(tnow - r.created_at >= SESSION_TIMEOUT
                              /\ r.user_id = user_id))

\* a purge that takes the expired sessions of every user
cleanup_expired_sessions_any(S, user_id, tnow) ==
    SelectSeq(S, LAMBDA r : ~is_expired(r, tnow))

\* _cleanup_expired_sessions(user_id) with a user_id given
cleanup_expired_sessions(S, user_id, tnow) ==
    SelectSeq(S, LAMBDA r : ~(is_expired(r, tnow) /\ r.user_id = user_id))

\* [sid for sid, session in cls._sessions.items() if session['user_id'] == user_id]
user_sessions(S, user_id) == SelectSeq(S, LAMBDA r : r.user_id = user_id)

\* an eviction by least recent use instead of by creation
oldest_session_by_activity(us) ==
    LET i == CHOOSE i \in DOMAIN us :
                 /\ \A j \in DOMAIN us : us[i].last_activity <= us[j].last_activity
                 /\ \A j \in 1..(i - 1) : us[j].last_activity > us[i].last_activity
    IN  us[i].token

\* min(user_sessions, key=created_at): the first of the minimal ones
oldest_session(us) ==
    LET i == CHOOSE i \in DOMAIN us :
                 /\ \A j \in DOMAIN us : us[i].created_at <= us[j].created_at
                 /\ \A j \in 1..(i - 1) : us[j].created_at > us[i].created_at
    IN  us[i].token

\* an off-by-one limit test
limit_exceeded(n) == n > MAX_CONCURRENT_SESSIONS

\* len(user_sessions) >= cls.MAX_CONCURRENT_SESSIONS
limit_reached(n) == n >= MAX_CONCURRENT_SESSIONS

\* the sid create_session deletes, NoToken when the limit is not reached
evicted_token(S, user_id) ==
    LET us == user_sessions(S, user_id)
    IN  IF limit_reached(Len(us)) THEN oldest_session(us) ELSE NoToken

\* create_session, lines 35-46
evict_oldest(S, user_id) ==
    IF evicted_token(S, user_id) = NoToken THEN S
    ELSE dict_del(S, evicted_token(S, user_id))

\* session_data of create_session, lines 50-56
session_data(tok, user_id, tnow) ==
    [token |-> tok, user_id |-> user_id, created_at |-> tnow, last_activity |-> tnow]

\* session['last_activity'] = datetime.now()
touch(S, tok, tnow) ==
    [i \in DOMAIN S |-> IF S[i].token = tok
                        THEN [S[i] EXCEPT !.last_activity = tnow] ELSE S[i]]

\* sum(1 for session in cls._sessions.values() if session['user_id'] == user_id)
get_active_sessions(S, user_id) == Len(user_sessions(S, user_id))

\* a lock that never keeps a thread out
can_acquire_unguarded(lock) == lock \in Threads \cup {Free}

\* threading.Lock: acquire succeeds only while nobody holds the lock
can_acquire(lock) == lock = Free

NoLocal == [user_id |-> NoUser, session_token |-> NoToken, oldest |-> NoToken,
            entry |-> <<>>, entered_at |-> 0]

InCreate(t) == pc[t] = "create_session"

\* time passes between any two steps of the session code
Tick ==
    /\ now < MaxTime
    /\ now' = now + 1
    /\ ret' = NoReturn
    /\ UNCHANGED <<sessions, session_lock, next_token, pc, local>>
    /\ UNCHANGED outside_session

\* create_session, lines 31-46: take the lock, purge, count, evict.
\* local.entry and local.entered_at keep the table and the time found on entry.
create_session_enter(t, user_id) ==
    /\ pc[t] = "idle"
    /\ next_token + Cardinality({x \in Threads : InCreate(x)}) <= MaxTokens
    /\ can_acquire(session_lock)
    /\ session_lock' = t
    /\ LET purged == cleanup_expired_sessions(sessions, user_id, now)
       IN  /\ sessions' = evict_oldest(purged, user_id)
           /\ local' = [local EXCEPT ![t] =
                          [user_id |-> user_id, session_token |-> NoToken,
                           oldest |-> evicted_token(purged, user_id),
                           entry |-> sessions, entered_at |-> now]]
    /\ pc' = [pc EXCEPT ![t] = "create_session"]
    /\ ret' = NoReturn
    /\ UNCHANGED <<now, next_token>>
    /\ UNCHANGED outside_session

\* create_session, lines 48-61: draw the token, insert, release, return
create_session_insert(t) ==
    /\ pc[t] = "create_session"
    /\ sessions' = Append(sessions, session_data(next_token, local[t].user_id, now))
    /\ next_token' = next_token + 1
    /\ session_lock' = Free
    /\ pc' = [pc EXCEPT ![t] = "idle"]
    /\ local' = [local EXCEPT ![t] = NoLocal]
    /\ ret' = NoReturn
    /\ UNCHANGED now
    /\ UNCHANGED outside_session

\* validate_session, lines 74-87. On the expired branch the thread calls
\* _invalidate_session with _session_lock still held.
validate_session(t, session_token) ==
    /\ pc[t] = "idle"
    /\ can_acquire(session_lock)
    /\ LET session == dict_get(sessions, session_token)
       IN  IF session = <<>>
           THEN /\ ret' = [call |-> "validate_session", session_token |-> session_token,
                        value |-> None]
                /\ UNCHANGED <<sessions, session_lock, pc, local>>
           ELSE IF is_expired(session[1], now)
           THEN /\ session_lock' = t
                /\ pc' = [pc EXCEPT ![t] = "validate_session"]
                /\ local' = [local EXCEPT ![t] =
                               [NoLocal EXCEPT !.session_token = session_token]]
                /\ ret' = NoReturn
                /\ UNCHANGED sessions
           ELSE /\ sessions' = touch(sessions, session_token, now)
                /\ ret' = [call |-> "validate_session", session_token |-> session_token,
                        value |-> session_token]
                /\ UNCHANGED <<session_lock, pc, local>>
    /\ UNCHANGED <<now, next_token>>
    /\ UNCHANGED outside_session

\* _invalidate_session, lines 115-118, called by a request thread (pc idle)
\* or from the expired branch of validate_session (line 82), after which
\* validate_session returns None.
invalidate_session(t, session_token) ==
    /\ \/ pc[t] = "idle"
       \/ pc[t] = "validate_session" /\ local[t].session_token = session_token
    /\ can_acquire(session_lock)
    /\ sessions' = IF session_token \in Keys(sessions)
                   THEN dict_del(sessions, session_token)
                   ELSE sessions
    /\ session_lock' = Free
    /\ ret' = IF pc[t] = "validate_session"
              THEN [call |-> "validate_session", session_token |-> session_token,
                        value |-> None]
              ELSE NoReturn
    /\ pc' = [pc EXCEPT ![t] = "idle"]
    /\ local' = [local EXCEPT ![t] = NoLocal]
    /\ UNCHANGED <<now, next_token>>
    /\ UNCHANGED outside_session

Init ==
    /\ sessions = <<>>
    /\ session_lock = Free
    /\ now = 0
    /\ next_token = 1
    /\ pc = [t \in Threads |-> "idle"]
    /\ local = [t \in Threads |-> NoLocal]
    /\ ret = NoReturn
    /\ login_attempts = <<>>
    /\ clock = 0
    /\ locked = NoAnswer
    /\ record_calls = [recording |-> [t \in Threads |-> NoRecording],
                       returned |-> <<>>]
    /\ rbac = NoCall
    /\ jwt = [epoch |-> 0, wire |-> <<EmptyPart>>, issued |-> NoIssue,
              response |-> NoCall]
    /\ validator = [password |-> <<>>, assessment |-> NoCall]
    /\ factors = [digest |-> NoDigest, steps |-> FirstStep, user_code |-> NoCode,
                  verdict |-> NoCall]
    /\ reference = <<>>

\* one request thread, several identities
SessionNext ==
    \/ Tick
    \/ \E u \in Users : create_session_enter(MainThread, u)
    \/ create_session_insert(MainThread)
    \/ \E tok \in TokenIds : validate_session(MainThread, tok)
    \/ \E tok \in TokenIds : invalidate_session(MainThread, tok)

SessionSpec == Init /\ [][SessionNext]_vars

\* several request threads, one identity
ConcurrentNext ==
    \/ Tick
    \/ \E t \in Threads : create_session_enter(t, "u1")
    \/ \E t \in Threads : create_session_insert(t)
    \/ \E t \in Threads, tok \in TokenIds : validate_session(t, tok)
    \/ \E t \in Threads, tok \in TokenIds : invalidate_session(t, tok)

ConcurrentSpec == Init /\ [][ConcurrentNext]_vars

\* ------------------------------------------- get_active_sessions, threaded
\* the thread that calls get_active_sessions while MainThread works
ScanThread == "t2"

\* the identity's number of sessions has been noted by the running scan
noted ==
    pc[ScanThread] = "get_active_sessions"
    => get_active_sessions(sessions, local[ScanThread].user_id)
          \in local[ScanThread].counts

\* what sum() hands back, or the error that leaves get_active_sessions
scan_return(user_id, value, error, counts) ==
    [call |-> "get_active_sessions", session_token |-> NoToken,
     user_id |-> user_id, value |-> value, error |-> error, counts |-> counts]

\* get_active_sessions, line 131: cls._sessions.values() is evaluated and
\* its iterator made when the generator expression is created; the iterator
\* keeps the size of the dict (di_used, len) and its place in the entries
\* (di_pos: the token of the entry last visited, the entries being kept in
\* insertion order). No lock is taken. counts notes every number of
\* sessions the identity has had since the call began.
get_active_sessions_iter(t, user_id) ==
    /\ pc[t] = "idle"
    /\ pc' = [pc EXCEPT ![t] = "get_active_sessions"]
    /\ local' = [local EXCEPT ![t] =
                   [user_id |-> user_id, di_pos |-> NoToken,
                    di_used |-> Len(sessions), len |-> Len(sessions),
                    total |-> 0,
                    counts |-> {get_active_sessions(sessions, user_id)}]]
    /\ ret' = NoReturn
    /\ UNCHANGED <<sessions, session_lock, now, next_token>>
    /\ UNCHANGED outside_session

\* dictiter_iternextvalue: di->di_used != d->ma_used
size_changed(l, S) == l.di_used # Len(S)

\* get_active_sessions, line 131: one next() of the generator driven by
\* sum(). The dict iterator raises RuntimeError when the dict has another
\* size than at the start, or when it finds an entry after having handed
\* out as many as the dict had at the start; at the end of the entries sum()
\* returns the total.
get_active_sessions_next(t) ==
    /\ pc[t] = "get_active_sessions"
    /\ LET l == local[t]
           ahead == SelectSeq(sessions, LAMBDA r : r.token > l.di_pos)
           seen == l.counts \cup {get_active_sessions(sessions, l.user_id)}
           leave(value, error) ==
               /\ ret' = scan_return(l.user_id, value, error, seen)
               /\ pc' = [pc EXCEPT ![t] = "idle"]
               /\ local' = [local EXCEPT ![t] = NoLocal]
       IN  IF size_changed(l, sessions)
           THEN leave(None, "RuntimeError: dictionary changed size during iteration")
           ELSE IF ahead = <<>>
           THEN leave(l.total, "")
           ELSE IF l.len = 0
           THEN leave(None, "RuntimeError: dictionary keys changed during iteration")
           ELSE /\ local' = [local EXCEPT ![t] =
                               [l EXCEPT !.di_pos = ahead[1].token,
                                         !.len = l.len - 1,
                                         !.total = l.total
                                            + (IF ahead[1].user_id = l.user_id
                                               THEN 1 ELSE 0),
                                         !.counts = seen]]
                /\ ret' = NoReturn
                /\ UNCHANGED pc
    /\ UNCHANGED <<sessions, session_lock, now, next_token>>
    /\ UNCHANGED outside_session

\* the number of sessions the identity has now is noted in counts; the
\* steps of MainThread wait for it, so that no number goes unnoted
get_active_sessions_note(t) ==
    /\ pc[t] = "get_active_sessions"
    /\ ~noted
    /\ local' = [local EXCEPT ![t] =
                   [local[t] EXCEPT !.counts =
                       @ \cup {get_active_sessions(sessions, local[t].user_id)}]]
    /\ ret' = NoReturn
    /\ UNCHANGED <<sessions, session_lock, now, next_token, pc>>
    /\ UNCHANGED outside_session

\* one thread changes the table while another one counts, one identity
ScanNext ==
    \/ Tick
    \/ noted /\ create_session_enter(MainThread, "u1")
    \/ noted /\ create_session_insert(MainThread)
    \/ \E tok \in TokenIds : noted /\ validate_session(MainThread, tok)
    \/ \E tok \in TokenIds : noted /\ invalidate_session(MainThread, tok)
    \/ get_active_sessions_iter(ScanThread, "u1")
    \/ get_active_sessions_next(ScanThread)
    \/ get_active_sessions_note(ScanThread)

ScanSpec == Init /\ [][ScanNext]_vars

\* ================================================= LoginAttemptTracker
\* cls._login_attempts[username]: a defaultdict(list), a missing key reads as []
attempts_of(D, username) == IF username \in DOMAIN D THEN D[username] ELSE <<>>

\* reading cls._login_attempts[username] inserts a missing key
dict_set(D, username, history) ==
    [k \in DOMAIN D \cup {username} |-> IF k = username THEN history ELSE D[k]]

\* a window that still holds an attempt exactly LOCKOUT_DURATION old
in_window_closed(attempt, current_time) ==
    current_time - attempt.timestamp <= LOCKOUT_DURATION

\* current_time - attempt['timestamp'] < cls.LOCKOUT_DURATION
in_window(attempt, current_time) ==
    current_time - attempt.timestamp < LOCKOUT_DURATION

\* a prune with a window one step shorter than the lock's
recent_attempts_short(history, current_time) ==
    SelectSeq(history, LAMBDA a : current_time - a.timestamp < LOCKOUT_DURATION - 1)

\* a prune that keeps the failures of the window and drops the successes
recent_attempts_failures(history, current_time) ==
    SelectSeq(history, LAMBDA a : ~a.success /\ in_window(a, current_time))

\* a prune that keeps the newest MAX_ATTEMPTS - 2 attempts of the window
recent_attempts_capped(history, current_time) ==
    LET inside == SelectSeq(history, LAMBDA a : in_window(a, current_time))
    IN  IF Len(inside) <= MAX_ATTEMPTS - 2 THEN inside
        ELSE SubSeq(inside, Len(inside) - MAX_ATTEMPTS + 3, Len(inside))

\* record_login_attempt, lines 27-30: the attempts kept
recent_attempts(history, current_time) ==
    SelectSeq(history, LAMBDA a : in_window(a, current_time))

\* a count that takes successful attempts too
all_attempts(history, current_time) ==
    SelectSeq(history, LAMBDA a : in_window(a, current_time))

\* is_account_locked, lines 57-61
failed_attempts(history, current_time) ==
    SelectSeq(history, LAMBDA a : ~a.success /\ in_window(a, current_time))

\* is_account_locked, line 63
lock_decision(history, current_time) ==
    Len(failed_attempts(history, current_time)) >= MAX_ATTEMPTS

\* the number of attempts held in the whole dict
RECURSIVE SumLen(_, _)
SumLen(D, keys) == IF keys = {} THEN 0
                   ELSE LET k == CHOOSE k \in keys : TRUE
                        IN  Len(D[k]) + SumLen(D, keys \ {k})
stored(D) == SumLen(D, DOMAIN D)

\* time passes between any two tracker calls
TrackerTick ==
    /\ clock < MaxClock
    /\ clock' = clock + 1
    /\ locked' = NoAnswer
    /\ UNCHANGED login_attempts
    /\ UNCHANGED outside_tracker

\* record_login_attempt, lines 24-36
record_login_attempt(username, success) ==
    LET kept == recent_attempts(attempts_of(login_attempts, username), clock)
    IN  /\ stored(dict_set(login_attempts, username, kept)) < MaxHistory
        /\ login_attempts' =
             dict_set(login_attempts, username,
                      Append(kept, [timestamp |-> clock, success |-> success]))
        /\ locked' = NoAnswer
        /\ UNCHANGED clock
        /\ UNCHANGED outside_tracker

\* is_account_locked, lines 56-63
is_account_locked(username) ==
    /\ locked' = [call |-> "is_account_locked", username |-> username,
                  value |-> lock_decision(attempts_of(login_attempts, username), clock)]
    /\ login_attempts' =
         dict_set(login_attempts, username, attempts_of(login_attempts, username))
    /\ UNCHANGED clock
    /\ UNCHANGED outside_tracker

\* a reset that clears the whole dict
reset_login_attempts_all(username) ==
    /\ login_attempts' = <<>>
    /\ locked' = [call |-> "reset_login_attempts", username |-> username,
                  value |-> FALSE]
    /\ UNCHANGED clock
    /\ UNCHANGED outside_tracker

\* A reset whose membership test is inverted: the history is never deleted.
reset_login_attempts_kept(username) ==
    /\ login_attempts' = login_attempts
    /\ locked' = [call |-> "reset_login_attempts", username |-> username,
                  value |-> FALSE]
    /\ UNCHANGED clock
    /\ UNCHANGED outside_tracker

\* reset_login_attempts, lines 73-74; the call returns nothing, and `locked`
\* records which call was made last.
reset_login_attempts(username) ==
    /\ login_attempts' =
         IF username \in DOMAIN login_attempts
         THEN [k \in DOMAIN login_attempts \ {username} |-> login_attempts[k]]
         ELSE login_attempts
    /\ locked' = [call |-> "reset_login_attempts", username |-> username,
                  value |-> FALSE]
    /\ UNCHANGED clock
    /\ UNCHANGED outside_tracker

\* the tracker alone, with no reference tracker at its side
TrackerNext ==
    \/ TrackerTick /\ UNCHANGED reference_vars
    \/ \E u \in Usernames, success \in BOOLEAN :
          record_login_attempt(u, success) /\ UNCHANGED reference_vars
    \/ \E u \in Usernames : is_account_locked(u) /\ UNCHANGED reference_vars
    \/ \E u \in Usernames : reset_login_attempts(u) /\ UNCHANGED reference_vars

TrackerSpec == Init /\ [][TrackerNext]_vars

\* ------------------------------------------- record_login_attempt, threaded
\* record_login_attempt takes no lock: between its statements another thread
\* may run.  One username is recorded by all threads.
RaceUser == "alice"

\* the attempts recorded so far by calls that have returned, as a count per
\* attempt
count_of(bag, attempt) == IF attempt \in DOMAIN bag THEN bag[attempt] ELSE 0
bag_add(bag, attempt) ==
    [a \in DOMAIN bag \cup {attempt} |->
        IF a = attempt THEN count_of(bag, attempt) + 1 ELSE bag[a]]
RECURSIVE BagSize(_, _)
BagSize(bag, keys) == IF keys = {} THEN 0
                      ELSE LET k == CHOOSE k \in keys : TRUE
                           IN  bag[k] + BagSize(bag, keys \ {k})
Recording(t) == recording[t].at # "idle"

\* record_login_attempt, lines 24 and 28-30: the time is read, the list
\* comprehension reads the stored list (a defaultdict read inserts a missing
\* key) and builds the list of attempts to keep
record_prune(t, username, success) ==
    /\ recording[t].at = "idle"
    /\ BagSize(returned, DOMAIN returned) + Cardinality({x \in Threads : Recording(x)})
          < MaxCalls
    /\ record_calls' = [record_calls EXCEPT !.recording[t] =
          [at |-> "pruned", username |-> username, success |-> success,
           current_time |-> clock,
           kept |-> recent_attempts(attempts_of(login_attempts, username), clock)]]
    /\ login_attempts' = dict_set(login_attempts, username,
                                  attempts_of(login_attempts, username))
    /\ locked' = NoAnswer
    /\ UNCHANGED clock
    /\ UNCHANGED outside_race

\* record_login_attempt, line 27: the new list is stored under the username
record_assign(t) ==
    /\ recording[t].at = "pruned"
    /\ login_attempts' = dict_set(login_attempts, recording[t].username,
                                  recording[t].kept)
    /\ record_calls' = [record_calls EXCEPT !.recording[t].at = "assigned"]
    /\ locked' = NoAnswer
    /\ UNCHANGED clock
    /\ UNCHANGED outside_race

\* record_login_attempt, lines 33-36: the attempt is appended to the list
\* stored under the username now, and the call returns
record_append(t) ==
    /\ recording[t].at = "assigned"
    /\ LET attempt == [timestamp |-> recording[t].current_time,
                       success |-> recording[t].success]
       IN  /\ login_attempts' =
                dict_set(login_attempts, recording[t].username,
                         Append(attempts_of(login_attempts, recording[t].username),
                                attempt))
           /\ record_calls' = [recording |-> [recording EXCEPT ![t] = NoRecording],
                               returned |-> bag_add(returned, attempt)]
    /\ locked' = NoAnswer
    /\ UNCHANGED clock
    /\ UNCHANGED outside_race

\* ------------------------------------------- the tracker and its reference
\* Every call is made on the tracker and on a reference tracker that keeps the
\* complete history of a username since its last reset and never prunes.
record_both(username, success) ==
    /\ stored(reference) < MaxRecorded
    /\ record_login_attempt(username, success)
    /\ reference' = dict_set(reference, username,
                             Append(attempts_of(reference, username),
                                    [timestamp |-> clock, success |-> success]))

is_account_locked_both(username) ==
    /\ is_account_locked(username)
    /\ UNCHANGED reference

reset_both(username) ==
    /\ reset_login_attempts(username)
    /\ reference' = [k \in DOMAIN reference \ {username} |-> reference[k]]

ReferenceNext ==
    \/ TrackerTick /\ UNCHANGED reference
    \/ \E u \in Usernames, success \in BOOLEAN : record_both(u, success)
    \/ \E u \in Usernames : is_account_locked_both(u)
    \/ \E u \in Usernames : reset_both(u)

ReferenceSpec == Init /\ [][ReferenceNext]_vars

RaceNext ==
    \/ TrackerTick /\ UNCHANGED reference_vars
    \/ \E t \in Threads, success \in BOOLEAN : record_prune(t, RaceUser, success)
    \/ \E t \in Threads : record_assign(t)
    \/ \E t \in Threads : record_append(t)
    \/ is_account_locked(RaceUser) /\ UNCHANGED reference_vars

RaceSpec == Init /\ [][RaceNext]_vars

\* ============================================ RoleBasedAccessControl
\* RolePermission, lines 5-24
RolePermission ==
    {"CREATE_USER", "UPDATE_USER", "DELETE_USER", "VIEW_USER_PROFILE",
     "CREATE_PREDICTION", "UPDATE_PREDICTION", "DELETE_PREDICTION",
     "VIEW_PREDICTION", "ADMIN_ACCESS", "SYSTEM_CONFIG",
     "AUDIT_LOG_VIEW"}

\* the literal of _ROLE_PERMISSIONS, lines 32-58
ROLE_PERMISSIONS ==
    [role \in {"ADMIN", "ANALYST", "USER", "GUEST"} |->
        CASE role = "ADMIN"   -> RolePermission
          [] role = "ANALYST" -> {"CREATE_PREDICTION", "UPDATE_PREDICTION",
                                  "VIEW_PREDICTION"}
          [] role = "USER"    -> {"CREATE_PREDICTION", "VIEW_PREDICTION"}
          [] role = "GUEST"   -> {"VIEW_PREDICTION"}]

\* the role names handed to the class: the keys of the table, spellings of
\* them in other letter cases, and names of no role
RoleNames == {"ADMIN", "ANALYST", "USER", "GUEST",
              "admin", "Analyst", "user", "guest", "Guest",
              "ROOT", "root", "MODERATOR", ""}

\* str.upper() on the role names
upper(name) ==
    CASE name \in {"admin"}            -> "ADMIN"
      [] name \in {"Analyst"}          -> "ANALYST"
      [] name \in {"user"}             -> "USER"
      [] name \in {"guest", "Guest"}   -> "GUEST"
      [] name \in {"root"}             -> "ROOT"
      [] OTHER                         -> name

\* cls._ROLE_PERMISSIONS, the class attribute as it stands: its literal
\* until a call has been made, and from then on the table the last call left
role_permissions ==
    IF rbac.op = "none" THEN ROLE_PERMISSIONS ELSE rbac.table

\* a lookup that hands an unknown role the permissions of GUEST
table_get_open(role) ==
    IF role \in DOMAIN role_permissions THEN role_permissions[role]
    ELSE role_permissions["GUEST"]

\* cls._ROLE_PERMISSIONS.get(role, set()), lines 73 and 89
table_get(role) ==
    IF role \in DOMAIN role_permissions THEN role_permissions[role] ELSE {}

\* check_permission, lines 72-74; a str role and an enum permission raise
\* nothing, so the except branch of lines 75-76 is not taken
check_permission_result(role, permission) ==
    permission \in table_get(upper(role))

\* get_role_permissions, line 89
get_role_permissions_result(role) == table_get(upper(role))

\* a get_role_permissions whose caller receives the set of the table itself
\* and adds a permission to it
table_after_get_aliased(role) ==
    IF upper(role) \in DOMAIN role_permissions
    THEN [role_permissions EXCEPT ![upper(role)] = @ \cup {"ADMIN_ACCESS"}]
    ELSE role_permissions

\* the table after check_permission (lines 72-74), get_role_permissions
\* (line 89) or upgrade_user_role (lines 103-114): none of them assigns to
\* _ROLE_PERMISSIONS or to one of its sets
table_after_get(role) == role_permissions

\* a hierarchy in which USER cannot become ADMIN
role_hierarchy_short(role) ==
    CASE role = "GUEST"   -> {"USER", "ANALYST", "ADMIN"}
      [] role = "USER"    -> {"ANALYST"}
      [] role = "ANALYST" -> {"ADMIN"}
      [] OTHER            -> {}

\* role_hierarchy.get(current_role, []), lines 103-108 and 114
role_hierarchy(role) ==
    CASE role = "GUEST"   -> {"USER", "ANALYST", "ADMIN"}
      [] role = "USER"    -> {"ANALYST", "ADMIN"}
      [] role = "ANALYST" -> {"ADMIN"}
      [] role = "ADMIN"   -> {}
      [] OTHER            -> {}

\* upgrade_user_role, lines 110-114
upgrade_user_role_result(current_role, target_role) ==
    upper(target_role) \in role_hierarchy(upper(current_role))

check_permission(role, permission) ==
    /\ rbac' = [op |-> "check_permission", role |-> role, arg |-> permission,
                value |-> check_permission_result(role, permission), perms |-> {},
                table |-> role_permissions]
    /\ UNCHANGED outside_rbac

get_role_permissions(role) ==
    /\ rbac' = [op |-> "get_role_permissions", role |-> role, arg |-> "",
                value |-> FALSE, perms |-> get_role_permissions_result(role),
                table |-> table_after_get(role)]
    /\ UNCHANGED outside_rbac

upgrade_user_role(current_role, target_role) ==
    /\ rbac' = [op |-> "upgrade_user_role", role |-> current_role,
                arg |-> target_role,
                value |-> upgrade_user_role_result(current_role, target_role),
                perms |-> {}, table |-> role_permissions]
    /\ UNCHANGED outside_rbac

RbacNext ==
    \/ \E role \in RoleNames, permission \in RolePermission :
          check_permission(role, permission)
    \/ \E role \in RoleNames : get_role_permissions(role)
    \/ \E current_role \in RoleNames, target_role \in RoleNames :
          upgrade_user_role(current_role, target_role)

RbacSpec == Init /\ [][RbacNext]_vars

\* ======================================================= JWTMiddleware
\* SECRET_KEY, ALGORITHM and TOKEN_EXPIRATION (3600 s), lines 13-15
SECRET_KEY == "your_secure_secret_key"
ALGORITHM == "HS256"
TOKEN_EXPIRATION == 2

\* the role lists put into tokens and the role lists routes require
RoleLists == {<<>>, <<"USER">>, <<"ADMIN">>, <<"GUEST", "ANALYST">>,
              <<"MODERATOR">>}
RequiredRoles == {<<>>, <<"ADMIN">>, <<"USER", "ANALYST">>,
                  <<"VIEW_PREDICTION">>, <<"ADMIN_ACCESS", "SYSTEM_CONFIG">>}
Range(list) == {list[i] : i \in DOMAIN list}

\* the HMAC of header and payload under a key, kept symbolic
mac(key, alg, payload) == [key |-> key, alg |-> alg, payload |-> payload]

\* jwt.encode(payload, key, algorithm), line 36
jwt_encode(payload, key, alg) ==
    [form |-> "jws", alg |-> alg, payload |-> payload,
     signature |-> mac(key, alg, payload)]

\* a payload that expires at the issue time
token_payload_no_ttl(user_id, roles, t) ==
    [user_id |-> user_id, roles |-> IF roles = <<>> THEN <<>> ELSE roles,
     exp |-> t]

\* generate_token, lines 29-33: `roles or []` puts a new empty list for an
\* empty one; exp is int(time.time()) + TOKEN_EXPIRATION
token_payload(user_id, roles, t) ==
    [user_id |-> user_id, roles |-> IF roles = <<>> THEN <<>> ELSE roles,
     exp |-> t + TOKEN_EXPIRATION]

\* a decode that looks at exp before it verifies the signature
jwt_decode_exp_first(token, key, algorithms, tnow) ==
    IF token.form # "jws"
    THEN [outcome |-> "DecodeError", claims |-> NoClaims]
    ELSE IF token.payload.exp <= tnow
    THEN [outcome |-> "ExpiredSignatureError", claims |-> NoClaims]
    ELSE IF token.alg \notin algorithms
    THEN [outcome |-> "InvalidAlgorithmError", claims |-> NoClaims]
    ELSE IF token.signature # mac(key, token.alg, token.payload)
    THEN [outcome |-> "InvalidSignatureError", claims |-> NoClaims]
    ELSE [outcome |-> "claims", claims |-> token.payload]

\* jwt.decode(token, key, algorithms=[...]), line 52: PyJWT splits the
\* token, checks the algorithm and the signature, and validates exp last,
\* raising ExpiredSignatureError when exp <= now
jwt_decode(token, key, algorithms, tnow) ==
    IF token.form # "jws"
    THEN [outcome |-> "DecodeError", claims |-> NoClaims]
    ELSE IF token.alg \notin algorithms
    THEN [outcome |-> "InvalidAlgorithmError", claims |-> NoClaims]
    ELSE IF token.signature # mac(key, token.alg, token.payload)
    THEN [outcome |-> "InvalidSignatureError", claims |-> NoClaims]
    ELSE IF token.payload.exp <= tnow
    THEN [outcome |-> "ExpiredSignatureError", claims |-> NoClaims]
    ELSE [outcome |-> "claims", claims |-> token.payload]

\* decode_token, lines 51-62: both except clauses re-raise what they caught
decode_token_result(token, tnow) ==
    jwt_decode(token, SECRET_KEY, {ALGORITHM}, tnow)

\* the exception classes of PyJWT caught at line 93: ExpiredSignatureError
\* and the other subclasses of InvalidTokenError
InvalidTokenErrors == {"ExpiredSignatureError", "DecodeError",
                       "InvalidAlgorithmError", "InvalidSignatureError"}

\* request.headers.get('Authorization', '').split(' ')[-1], line 75
header_token(header) == header[Len(header)]

\* what a client can make of a token it holds without knowing SECRET_KEY
Tamperings == {"forge_roles", "extend_exp", "backdate", "resign", "alg_none",
               "truncate"}
tampered(token, how) ==
    CASE how = "forge_roles" ->
           [token EXCEPT !.payload.roles = <<"ADMIN">>]
      [] how = "extend_exp" ->
           [token EXCEPT !.payload.exp = MaxEpoch + TOKEN_EXPIRATION + 1]
      [] how = "backdate" ->
           [token EXCEPT !.payload.exp = 0]
      [] how = "resign" ->
           jwt_encode([token.payload EXCEPT !.roles = <<"ADMIN">>],
                      "guessed_key", ALGORITHM)
      [] how = "alg_none" ->
           [token EXCEPT !.alg = "none", !.signature = NoSignature]
      [] how = "truncate" ->
           [form |-> "garbage"]

\* the headers a client can send with a token: with the Bearer scheme, the
\* token alone, the scheme alone ('Bearer' and 'Bearer '), or no header
headers_of(token) ==
    {<<BearerPart, token>>, <<token>>, <<BearerPart>>,
     <<BearerPart, EmptyPart>>, <<EmptyPart>>}

\* time.time() advances
TokenTick ==
    /\ epoch < MaxEpoch
    /\ jwt' = [jwt EXCEPT !.epoch = epoch + 1, !.response = NoCall]
    /\ UNCHANGED outside_token

\* generate_token, lines 17-38; the caller sends the token as a Bearer header
generate_token(user_id, roles) ==
    /\ LET token == jwt_encode(token_payload(user_id, roles, epoch),
                               SECRET_KEY, ALGORITHM)
       IN  jwt' = [jwt EXCEPT !.issued = [user_id |-> user_id, roles |-> roles,
                                         at |-> epoch, token |-> token],
                              !.wire = <<BearerPart, token>>,
                              !.response = NoCall]
    /\ UNCHANGED outside_token

\* the headers a client can make of the token it was issued
tampered_headers(how) ==
    IF issued.token.form = "jws"
    THEN headers_of(tampered(issued.token, how)) \cup headers_of(issued.token)
    ELSE {}

\* the client alters the token it was issued, or the header around it,
\* before the next request
tamper(how, header) ==
    /\ issued.token.form = "jws"
    /\ wire = <<BearerPart, issued.token>>
    /\ header \in tampered_headers(how)
    /\ header # wire
    /\ jwt' = [jwt EXCEPT !.wire = header, !.response = NoCall]
    /\ UNCHANGED outside_token

\* decode_token, lines 40-62, on the token of the request
decode_token ==
    /\ LET decoded == decode_token_result(header_token(wire), epoch)
       IN  jwt' = [jwt EXCEPT !.response =
                     [NoResponse EXCEPT !.op = "decode_token",
                                        !.outcome = decoded.outcome,
                                        !.claims = decoded.claims]]
    /\ UNCHANGED outside_token

\* a guard that wants every required role in the token
guard_response_all(token, required_roles, tnow) ==
    IF token.form = "empty"
    THEN [NoResponse EXCEPT !.status = 401, !.body = "No token provided"]
    ELSE LET decoded == decode_token_result(token, tnow)
         IN  IF decoded.outcome \in InvalidTokenErrors
             THEN [NoResponse EXCEPT !.outcome = decoded.outcome,
                                     !.status = 401,
                                     !.body = "Invalid or expired token"]
             ELSE IF /\ required_roles # <<>>
                     /\ ~(Range(required_roles) \subseteq Range(decoded.claims.roles))
             THEN [NoResponse EXCEPT !.outcome = decoded.outcome,
                                     !.claims = decoded.claims,
                                     !.status = 403,
                                     !.body = "Insufficient permissions"]
             ELSE [NoResponse EXCEPT !.outcome = decoded.outcome,
                                     !.claims = decoded.claims,
                                     !.status = 200,
                                     !.body = "route",
                                     !.user = decoded.claims]

\* a guard that tells the client when its token has expired
guard_response_leaky(token, required_roles, tnow) ==
    IF token.form = "empty"
    THEN [NoResponse EXCEPT !.status = 401, !.body = "No token provided"]
    ELSE LET decoded == decode_token_result(token, tnow)
         IN  IF decoded.outcome = "ExpiredSignatureError"
             THEN [NoResponse EXCEPT !.outcome = decoded.outcome,
                                     !.status = 401,
                                     !.body = "Token has expired"]
             ELSE IF decoded.outcome \in InvalidTokenErrors
             THEN [NoResponse EXCEPT !.outcome = decoded.outcome,
                                     !.status = 401,
                                     !.body = "Invalid or expired token"]
             ELSE IF /\ required_roles # <<>>
                     /\ Range(required_roles) \cap Range(decoded.claims.roles) = {}
             THEN [NoResponse EXCEPT !.outcome = decoded.outcome,
                                     !.claims = decoded.claims,
                                     !.status = 403,
                                     !.body = "Insufficient permissions"]
             ELSE [NoResponse EXCEPT !.outcome = decoded.outcome,
                                     !.claims = decoded.claims,
                                     !.status = 200,
                                     !.body = "route",
                                     !.user = decoded.claims]

\* authenticate(required_roles), the wrapper of lines 74-89, on the request,
\* up to the call of the wrapped route: status 200 and body "route" stand
\* for the route being called with request.user set
guard_response(token, required_roles, tnow) ==
    IF token.form = "empty"
    THEN [NoResponse EXCEPT !.status = 401, !.body = "No token provided"]
    ELSE LET decoded == decode_token_result(token, tnow)
         IN  IF decoded.outcome \in InvalidTokenErrors
             THEN [NoResponse EXCEPT !.outcome = decoded.outcome,
                                     !.status = 401,
                                     !.body = "Invalid or expired token"]
             ELSE IF /\ required_roles # <<>>
                     /\ Range(required_roles) \cap Range(decoded.claims.roles) = {}
             THEN [NoResponse EXCEPT !.outcome = decoded.outcome,
                                     !.claims = decoded.claims,
                                     !.status = 403,
                                     !.body = "Insufficient permissions"]
             ELSE [NoResponse EXCEPT !.outcome = decoded.outcome,
                                     !.claims = decoded.claims,
                                     !.status = 200,
                                     !.body = "route",
                                     !.user = decoded.claims]

\* what the wrapped route func does when it is called: it returns its
\* answer, or it raises an error of PyJWT (a route that decodes a token of
\* its own with decode_token), or it raises some other error
Routes == {"returns", "raises InvalidTokenError", "raises ValueError"}

\* the wrapper, lines 74-94: the route is called at line 90, inside the try
\* block, so the except clause of line 93 also answers an error of PyJWT
\* that the route raises; any other error of the route leaves the wrapper
wrapper_response(token, required_roles, func, tnow) ==
    LET guarded == guard_response(token, required_roles, tnow)
    IN  IF guarded.status # 200 THEN guarded
        ELSE IF func = "returns" THEN [guarded EXCEPT !.called = TRUE]
        ELSE IF func = "raises InvalidTokenError"
        THEN [guarded EXCEPT !.called = TRUE, !.status = 401,
                             !.body = "Invalid or expired token"]
        ELSE [guarded EXCEPT !.called = TRUE, !.status = 500, !.body = func]

\* a request to a route decorated with authenticate(required_roles)
authenticate(required_roles, func) ==
    /\ jwt' = [jwt EXCEPT !.response =
                  [wrapper_response(header_token(wire), required_roles, func, epoch)
                     EXCEPT !.op = "authenticate",
                            !.required_roles = required_roles]]
    /\ UNCHANGED outside_token

TokenNext ==
    \/ TokenTick
    \/ \E user_id \in Users, roles \in RoleLists : generate_token(user_id, roles)
    \/ \E how \in Tamperings :
          \E header \in tampered_headers(how) : tamper(how, header)
    \/ decode_token
    \/ \E required_roles \in RequiredRoles, func \in Routes :
          authenticate(required_roles, func)

TokenSpec == Init /\ [][TokenNext]_vars

\* =========================================== PasswordStrengthValidator
\* the letters [A-Z] and [a-z], position by position
UPPERCASE == <<"A", "B", "C", "D", "E", "F", "G", "H", "I", "J", "K", "L", "M",
               "N", "O", "P", "Q", "R", "S", "T", "U", "V", "W", "X", "Y", "Z">>
LOWERCASE == <<"a", "b", "c", "d", "e", "f", "g", "h", "i", "j", "k", "l", "m",
               "n", "o", "p", "q", "r", "s", "t", "u", "v", "w", "x", "y", "z">>
\* \d on ASCII text, line 55
DIGITS == {"0", "1", "2", "3", "4", "5", "6", "7", "8", "9"}
\* [!@#$%^&*(),.?":{}|<>], line 56
SPECIAL == {"!", "@", "#", "$", "%", "^", "&", "*", "(", ")", ",", ".", "?",
            "\"", ":", "{", "}", "|", "<", ">"}

\* str.lower(), lines 77 and 96
lower_char(c) ==
    IF \E i \in DOMAIN UPPERCASE : UPPERCASE[i] = c
    THEN LOWERCASE[CHOOSE i \in DOMAIN UPPERCASE : UPPERCASE[i] = c]
    ELSE c
lower(text) == [i \in DOMAIN text |-> lower_char(text[i])]

\* pattern in text, lines 77 and 96
contains(text, pattern) ==
    \E i \in 0..(Len(text) - Len(pattern)) :
       SubSeq(text, i + 1, i + Len(pattern)) = pattern

\* common_patterns, lines 72-75
common_patterns ==
    {<<"1", "2", "3">>, <<"a", "b", "c">>, <<"q", "w", "e", "r", "t", "y">>,
     <<"p", "a", "s", "s", "w", "o", "r", "d">>,
     <<"l", "e", "t", "m", "e", "i", "n">>, <<"a", "d", "m", "i", "n">>,
     <<"w", "e", "l", "c", "o", "m", "e">>, <<"l", "o", "g", "i", "n">>,
     <<"1", "1", "1">>, <<"0", "0", "0">>}

\* potential_personal_info, lines 91-94
potential_personal_info ==
    {<<"b", "i", "r", "t", "h", "d", "a", "y">>,
     <<"b", "i", "r", "t", "h", "d", "a", "t", "e">>,
     <<"n", "a", "m", "e">>, <<"u", "s", "e", "r", "n", "a", "m", "e">>,
     <<"e", "m", "a", "i", "l">>, <<"p", "h", "o", "n", "e">>,
     <<"a", "d", "d", "r", "e", "s", "s">>}

\* re.search(r'[...]', password), lines 53-56
search(chars, text) == \E i \in DOMAIN text : text[i] \in chars
as_int(b) == IF b THEN 1 ELSE 0

\* a complexity check that wants all four classes
check_complexity_all(text) ==
    as_int(search(Range(UPPERCASE), text)) + as_int(search(Range(LOWERCASE), text))
      + as_int(search(DIGITS, text)) + as_int(search(SPECIAL, text)) >= 4

\* _check_complexity, lines 52-59
check_complexity(text) ==
    as_int(search(Range(UPPERCASE), text)) + as_int(search(Range(LOWERCASE), text))
      + as_int(search(DIGITS, text)) + as_int(search(SPECIAL, text)) >= 3

\* _has_common_patterns, line 77
has_common_patterns(text) ==
    \E pattern \in common_patterns : contains(lower(text), pattern)

\* _contains_personal_info, line 96
contains_personal_info(text) ==
    \E info \in potential_personal_info : contains(lower(text), info)

\* validate_password, lines 21-39
validate_password_result(text) ==
    IF text = <<>>
    THEN [length |-> FALSE, complexity |-> FALSE, no_common_patterns |-> FALSE,
          no_personal_info |-> FALSE, overall_strength |-> FALSE]
    ELSE LET length == Len(text) >= 12
             complexity == check_complexity(text)
             no_common_patterns == ~has_common_patterns(text)
             no_personal_info == ~contains_personal_info(text)
         IN  [length |-> length, complexity |-> complexity,
              no_common_patterns |-> no_common_patterns,
              no_personal_info |-> no_personal_info,
              overall_strength |-> /\ length
                                   /\ complexity
                                   /\ no_common_patterns
                                   /\ no_personal_info]

\* the four messages, lines 113, 116, 119 and 122
LengthMessage == "Password should be at least 12 characters long"
ComplexityMessage ==
    "Include a mix of uppercase, lowercase, numbers, and special characters"
CommonPatternsMessage == "Avoid using common patterns or simple sequences"
PersonalInfoMessage == "Avoid using personal information in your password"

\* get_password_strength_feedback, lines 109-124
get_password_strength_feedback_result(text) ==
    LET validation == validate_password_result(text)
    IN  (IF ~validation.length THEN <<LengthMessage>> ELSE <<>>)
        \o (IF ~validation.complexity THEN <<ComplexityMessage>> ELSE <<>>)
        \o (IF validation.no_common_patterns THEN <<CommonPatternsMessage>> ELSE <<>>)
        \o (IF validation.no_personal_info THEN <<PersonalInfoMessage>> ELSE <<>>)

\* the pieces the passwords are typed in
Chunks ==
    {<<"p", "a", "s", "s", "w", "o", "r", "d">>, <<"1", "2", "3">>,
     <<"T", "r", "0", "u", "b", "4", "d", "o", "r">>, <<"&", "3", "X", "Q", "!">>,
     <<"A", "B", "C">>, <<"N", "a", "m", "e">>, <<"_", "-">>,
     <<"x", "y", "z", "w">>}

\* the user types on, or starts again
type_chunk(chunk) ==
    /\ Len(password) + Len(chunk) <= MaxPasswordLen
    /\ validator' = [password |-> password \o chunk, assessment |-> NoCall]
    /\ UNCHANGED outside_password

clear_password ==
    /\ password # <<>>
    /\ validator' = [password |-> <<>>, assessment |-> NoCall]
    /\ UNCHANGED outside_password

\* validate_password, lines 10-39
validate_password ==
    /\ validator' = [validator EXCEPT !.assessment =
                        [op |-> "validate_password",
                         validation |-> validate_password_result(password),
                         feedback |-> <<>>]]
    /\ UNCHANGED outside_password

\* get_password_strength_feedback, lines 98-124
get_password_strength_feedback ==
    /\ validator' = [validator EXCEPT !.assessment =
                        [op |-> "get_password_strength_feedback",
                         validation |-> validate_password_result(password),
                         feedback |-> get_password_strength_feedback_result(password)]]
    /\ UNCHANGED outside_password

PasswordNext ==
    \/ \E chunk \in Chunks : type_chunk(chunk)
    \/ clear_password
    \/ validate_password
    \/ get_password_strength_feedback

PasswordSpec == Init /\ [][PasswordNext]_vars

\* ======================================================= PasswordUtils
\* the passwords users type; the last one holds a lone surrogate, which
\* str.encode('utf-8') refuses.  All are shorter than bcrypt's 72 bytes.
Passwords == {"hunter2", "Hunter2", "", "correct horse", "hunter<U+D800>"}

\* plain_password.encode('utf-8'), lines 26 and 46
encode_utf8(text) ==
    IF text = "hunter<U+D800>"
    THEN [outcome |-> "UnicodeEncodeError", bytes |-> ""]
    ELSE [outcome |-> "bytes", bytes |-> text]

\* the 16 random bytes of bcrypt.gensalt
Salts == {"N9qo8uLOickgx2ZMRZoMye", "abcdefghijklmnopqrstuu", "ZZZZZZZZZZZZZZZZZZZZZe"}

\* the hash part of a digest that ends with its salt
NoHash == [rounds |-> 0, salt |-> "", bytes |-> "", chars |-> 0]

\* bcrypt.gensalt(rounds=12), line 25: '$2b$12$' and the salt
gensalt(rounds, salt) ==
    [form |-> "bcrypt", prefix |-> "2b", rounds |-> rounds, salt |-> salt,
     hash |-> NoHash]

\* a stored digest cut inside its salt, or replaced by some other text
CutSalt == "cut"
OtherText == [form |-> "text"]

\* the key-stretching function of bcrypt, kept symbolic: 31 characters
bcrypt_hash(rounds, salt, bytes) ==
    [rounds |-> rounds, salt |-> salt, bytes |-> bytes, chars |-> 31]

\* bcrypt.hashpw(password, salt), line 26: the setting is the first 29
\* characters of its second argument; ValueError('Invalid salt') otherwise
hashpw(bytes, setting) ==
    IF setting.form # "bcrypt" THEN [outcome |-> "ValueError", value |-> NoDigest]
    ELSE IF setting.salt \notin Salts THEN [outcome |-> "ValueError", value |-> NoDigest]
    ELSE [outcome |-> "hash",
          value |-> [form |-> "bcrypt", prefix |-> setting.prefix,
                     rounds |-> setting.rounds, salt |-> setting.salt,
                     hash |-> bcrypt_hash(setting.rounds, setting.salt, bytes)]]

\* bcrypt.checkpw(password, hashed_password), line 45: hashes the password
\* with the setting of the digest and compares the two in constant time
checkpw(bytes, hashed) ==
    LET rehashed == hashpw(bytes, hashed)
    IN  IF rehashed.outcome # "hash"
        THEN [outcome |-> rehashed.outcome, value |-> FALSE]
        ELSE [outcome |-> "bool", value |-> rehashed.value = hashed]

\* hash_password, lines 23-30: an exception is logged and raised again
hash_password_result(plain_password, salt) ==
    LET encoded == encode_utf8(plain_password)
    IN  IF encoded.outcome # "bytes"
        THEN [outcome |-> "raised", value |-> NoDigest]
        ELSE [outcome |-> "returned",
              value |-> hashpw(encoded.bytes, gensalt(12, salt)).value]

\* a verify_password without its except clause
verify_password_raising(plain_password, hashed_password) ==
    LET encoded == encode_utf8(plain_password)
    IN  IF encoded.outcome # "bytes"
        THEN [outcome |-> "raised", value |-> FALSE]
        ELSE LET checked == checkpw(encoded.bytes, hashed_password)
             IN  IF checked.outcome # "bool"
                 THEN [outcome |-> "raised", value |-> FALSE]
                 ELSE [outcome |-> "returned", value |-> checked.value]

\* verify_password, lines 44-51: every exception is logged and answered
\* with False
verify_password_result(plain_password, hashed_password) ==
    LET encoded == encode_utf8(plain_password)
    IN  IF encoded.outcome # "bytes"
        THEN [outcome |-> "returned", value |-> FALSE]
        ELSE LET checked == checkpw(encoded.bytes, hashed_password)
             IN  IF checked.outcome # "bool"
                 THEN [outcome |-> "returned", value |-> FALSE]
                 ELSE [outcome |-> "returned", value |-> checked.value]

\* hash_password(password); the credential store keeps the digest returned
hash_password(plain_password) ==
    /\ \E salt \in Salts :
          LET hashed == hash_password_result(plain_password, salt)
          IN  factors' = [factors EXCEPT
                 !.digest = IF hashed.outcome = "returned" THEN hashed.value
                            ELSE digest,
                 !.verdict = [op |-> "hash_password", password |-> plain_password,
                              outcome |-> hashed.outcome, value |-> FALSE]]
    /\ UNCHANGED outside_factors

\* the ways a stored digest gets damaged
Damages == {"cut_hash", "cut_salt", "other_text", "cleared"}
damaged(hashed, how) ==
    CASE how = "cut_hash" -> [hashed EXCEPT !.hash.chars = 10]
      [] how = "cut_salt" -> [hashed EXCEPT !.salt = CutSalt, !.hash = NoHash]
      [] how = "other_text" -> OtherText
      [] how = "cleared" -> NoDigest

\* the credential store hands out a damaged digest
damage_digest(how) ==
    /\ digest.form = "bcrypt"
    /\ digest.salt \in Salts
    /\ digest.hash.chars = 31
    /\ factors' = [factors EXCEPT !.digest = damaged(digest, how),
                                  !.verdict = NoCall]
    /\ UNCHANGED outside_factors

\* verify_password(password, digest) on the digest of the credential store
verify_password(plain_password) ==
    /\ LET verified == verify_password_result(plain_password, digest)
       IN  factors' = [factors EXCEPT
              !.verdict = [op |-> "verify_password", password |-> plain_password,
                           outcome |-> verified.outcome, value |-> verified.value]]
    /\ UNCHANGED outside_factors

PasswordUtilsNext ==
    \/ \E plain_password \in Passwords : hash_password(plain_password)
    \/ \E how \in Damages : damage_digest(how)
    \/ \E plain_password \in Passwords : verify_password(plain_password)

PasswordUtilsSpec == Init /\ [][PasswordUtilsNext]_vars

\* ======================================================= TwoFactorAuth
\* the secrets of the users: two base32 secrets, one of them also in lower
\* case, and a text that is no base32
Secrets == {"JBSWY3DPEHPK3PXP", "jbswy3dpehpk3pxp", "GEZDGNBVGY3TQOJQ",
            "not base32!"}

\* pyotp's byte_secret: base64.b32decode(secret, casefold=True)
byte_secret(secret) ==
    CASE secret = "JBSWY3DPEHPK3PXP" -> [outcome |-> "bytes", bytes |-> "Hello!"]
      [] secret = "jbswy3dpehpk3pxp" -> [outcome |-> "bytes", bytes |-> "Hello!"]
      [] secret = "GEZDGNBVGY3TQOJQ" -> [outcome |-> "bytes", bytes |-> "1234567890"]
      [] OTHER -> [outcome |-> "binascii.Error", bytes |-> ""]

\* the windows verify_totp is called with
Windows == {-1, 0, 1, 2}

\* pyotp's generate_otp(input): the truncated HMAC of the counter under the
\* secret, kept symbolic; a negative counter is a ValueError
generate_otp(secret, input) ==
    IF input < 0 THEN [outcome |-> "ValueError", code |-> NoCode]
    ELSE LET key == byte_secret(secret)
         IN  IF key.outcome # "bytes"
             THEN [outcome |-> key.outcome, code |-> NoCode]
             ELSE [outcome |-> "code",
                   code |-> [form |-> "digits", key |-> key.bytes, counter |-> input]]

\* a verification that looks at the current and at past steps only
RECURSIVE otp_loop_past(_, _, _, _, _)
otp_loop_past(secret, otp, step, i, last) ==
    IF i > 0 THEN [outcome |-> "bool", value |-> FALSE]
    ELSE LET at == generate_otp(secret, step + i)
         IN  IF at.outcome # "code" THEN [outcome |-> at.outcome, value |-> FALSE]
             ELSE IF otp = at.code THEN [outcome |-> "bool", value |-> TRUE]
             ELSE otp_loop_past(secret, otp, step, i + 1, last)

\* pyotp's TOTP.verify: for i in range(-valid_window, valid_window + 1),
\* return True at the first i with otp equal to self.at(for_time, i)
RECURSIVE otp_loop(_, _, _, _, _)
otp_loop(secret, otp, step, i, last) ==
    IF i > last THEN [outcome |-> "bool", value |-> FALSE]
    ELSE LET at == generate_otp(secret, step + i)
         IN  IF at.outcome # "code" THEN [outcome |-> at.outcome, value |-> FALSE]
             ELSE IF otp = at.code THEN [outcome |-> "bool", value |-> TRUE]
             ELSE otp_loop(secret, otp, step, i + 1, last)

\* pyotp.TOTP(secret).verify(user_code, valid_window=window), line 56; a
\* window of 0 compares with the code of the current step only
totp_verify(secret, otp, step, valid_window) ==
    IF valid_window # 0
    THEN otp_loop(secret, otp, step, -valid_window, valid_window)
    ELSE otp_loop(secret, otp, step, 0, 0)

\* verify_totp, lines 54-59: every exception is logged and answered with
\* False
verify_totp_result(secret, otp, step, window) ==
    LET verified == totp_verify(secret, otp, step, window)
    IN  IF verified.outcome # "bool"
        THEN [outcome |-> "returned", value |-> FALSE]
        ELSE [outcome |-> "returned", value |-> verified.value]

\* time.time() moves on by one step of 30 s
TotpTick ==
    /\ steps < FirstStep + MaxSteps
    /\ factors' = [factors EXCEPT !.steps = steps + 1, !.verdict = NoCall]
    /\ UNCHANGED outside_factors

\* how far the clock of an authenticator app is off, in steps
Drifts == -3..3

\* the user types the code an authenticator shows for a secret
type_code(secret, drift) ==
    /\ generate_otp(secret, steps + drift).outcome = "code"
    /\ factors' = [factors EXCEPT
          !.user_code = generate_otp(secret, steps + drift).code,
          !.verdict = NoCall]
    /\ UNCHANGED outside_factors

\* verify_totp(secret, user_code, window) on the code typed
verify_totp(secret, window) ==
    /\ LET verified == verify_totp_result(secret, user_code, steps, window)
       IN  factors' = [factors EXCEPT
              !.verdict = [op |-> "verify_totp", secret |-> secret,
                           window |-> window, outcome |-> verified.outcome,
                           value |-> verified.value]]
    /\ UNCHANGED outside_factors

TwoFactorNext ==
    \/ TotpTick
    \/ \E secret \in Secrets, drift \in Drifts : type_code(secret, drift)
    \/ \E secret \in Secrets, window \in Windows : verify_totp(secret, window)

TwoFactorSpec == Init /\ [][TwoFactorNext]_vars

\* ======================================================= properties
\* the identity's sessions that a validate_session at tnow would still accept
LiveTokens(S, u, tnow) ==
    {S[i].token : i \in {j \in DOMAIN S :
                           S[j].user_id = u /\ tnow - S[j].created_at <= SESSION_TIMEOUT}}
HeldTokens(S, u) == {S[i].token : i \in {j \in DOMAIN S : S[j].user_id = u}}
Record(S, tok) == S[CHOOSE i \in DOMAIN S : S[i].token = tok]

\* C1: in every reachable state each identity holds at most
\* MAX_CONCURRENT_SESSIONS (3) sessions in the session table.
C1_SessionLimit ==
    \A u \in Users :
        Cardinality(HeldTokens(sessions, u)) <= MAX_CONCURRENT_SESSIONS

\* an identity is at the limit after more than 3 sessions were created
C1_Witness ==
    \E u \in Users :
        /\ Cardinality(HeldTokens(sessions, u)) = MAX_CONCURRENT_SESSIONS
        /\ \A i \in DOMAIN sessions : sessions[i].user_id = u
        /\ next_token > MAX_CONCURRENT_SESSIONS + 1

\* C2: a create_session that finds 3 non-expired sessions of the identity
\* removes exactly one of them, one with the smallest created_at whatever
\* its last_activity; with fewer than 3 it removes no non-expired session;
\* the new session is then inserted next to everything that was left.
C2_EvictsOldest ==
    [][ /\ \A u \in Users :
            (pc[MainThread] = "idle" /\ pc'[MainThread] = "create_session"
                /\ local'[MainThread].user_id = u)
            => LET live == LiveTokens(sessions, u, now)
                   gone == live \ Keys(sessions')
               IN  IF Cardinality(live) >= MAX_CONCURRENT_SESSIONS
                   THEN /\ Cardinality(gone) = 1
                        /\ \A g \in gone : \A k \in live :
                              Record(sessions, g).created_at
                                 <= Record(sessions, k).created_at
                   ELSE gone = {}
        /\ (pc[MainThread] = "create_session" /\ pc'[MainThread] = "idle")
            => /\ Keys(sessions') = Keys(sessions) \cup {next_token}
               /\ next_token \notin Keys(sessions)
               /\ Record(sessions', next_token).user_id = local[MainThread].user_id
               /\ \A k \in Keys(sessions) : Record(sessions', k) = Record(sessions, k)
      ]_vars

\* create_session has just evicted a session that was used more recently
\* than a session it kept
C2_Witness ==
    /\ pc[MainThread] = "create_session"
    /\ local[MainThread].oldest # NoToken
    /\ \E k \in Keys(sessions) :
          /\ Record(sessions, k).user_id = local[MainThread].user_id
          /\ Record(local[MainThread].entry, local[MainThread].oldest).last_activity
               > Record(sessions, k).last_activity

\* C3: validate_session always terminates: a thread that found the session
\* expired gets through _invalidate_session, so it never waits there for the
\* session lock, and the lock is free again once the call is over.
C3_ValidateTerminates ==
    \A t \in Threads :
        /\ pc[t] = "validate_session" => session_lock # t
        /\ pc[t] = "idle" => session_lock # t

\* C4: expiry is absolute. A validate_session of a held session returns it
\* exactly when now - created_at <= SESSION_TIMEOUT, however often it was
\* validated before; returning it changes only that session's last_activity.
C4_AbsoluteExpiry ==
    [][ /\ (ret'.call = "validate_session" /\ ret'.value # None)
            => /\ ret'.value = ret'.session_token
               /\ ret'.value \in Keys(sessions)
               /\ now - Record(sessions, ret'.value).created_at <= SESSION_TIMEOUT
               /\ Keys(sessions') = Keys(sessions)
               /\ \A k \in Keys(sessions) :
                     IF k = ret'.value
                     THEN Record(sessions', k) =
                            [Record(sessions, k) EXCEPT !.last_activity = now]
                     ELSE Record(sessions', k) = Record(sessions, k)
        /\ (ret'.call = "validate_session" /\ ret'.value = None)
            => /\ ret'.session_token \notin Keys(sessions)
               /\ sessions' = sessions
        /\ (pc[MainThread] = "idle" /\ pc'[MainThread] = "validate_session")
            => now - Record(sessions, local'[MainThread].session_token).created_at
                 > SESSION_TIMEOUT
      ]_vars

\* a session is returned at the very end of its life, after earlier use
C4_Witness ==
    /\ ret.call = "validate_session"
    /\ ret.value # None
    /\ now - Record(sessions, ret.value).created_at = SESSION_TIMEOUT
    /\ \E k \in Keys(sessions) :
          /\ k # ret.value
          /\ Record(sessions, k).last_activity > Record(sessions, k).created_at

\* C5: _invalidate_session(token) is idempotent and total: after the call
\* the token is not in the table, a call for a token that is not in the
\* table (a second call, or a token never issued) changes nothing and ends
\* like any other call, and no other session is removed or changed.
C5_InvalidateIdempotent ==
    [][\A tok \in TokenIds :
            invalidate_session(MainThread, tok)
            => /\ tok \notin Keys(sessions')
               /\ Keys(sessions') = Keys(sessions) \ {tok}
               /\ \A k \in Keys(sessions') : Record(sessions', k) = Record(sessions, k)
               /\ tok \notin Keys(sessions) => sessions' = sessions
               /\ pc'[MainThread] = "idle" /\ session_lock' = Free
         ]_vars

\* one of several sessions of an identity was invalidated: no create_session
\* has evicted (at most 3 tokens drawn) or purged (nothing has expired) yet
C5_Witness ==
    /\ pc[MainThread] = "idle"
    /\ next_token <= MAX_CONCURRENT_SESSIONS + 1
    /\ now <= SESSION_TIMEOUT
    /\ \E k \in Keys(sessions), tok \in 1..(next_token - 1) :
          /\ tok \notin Keys(sessions)
          /\ Record(sessions, k).user_id = "u1"
          /\ k < tok

\* C6: get_active_sessions(identity) is the number of the identity's
\* non-expired sessions: one whose age exceeds SESSION_TIMEOUT is not counted.
C6_CountsNonExpired ==
    \A u \in Users :
        get_active_sessions(sessions, u) = Cardinality(LiveTokens(sessions, u, now))

\* C7: create_session is atomic. With several threads creating sessions for
\* one identity, the identity never holds more than 3 sessions, only the
\* thread inside create_session changes the table, and the table it leaves
\* is the one the whole call produces when run alone on the table it found.
C7_CreateAtomic ==
    /\ [](Cardinality(HeldTokens(sessions, "u1")) <= MAX_CONCURRENT_SESSIONS)
    /\ [](\A t \in Threads : InCreate(t) => session_lock = t)
    /\ [][\A t \in Threads :
            /\ (InCreate(t) /\ pc'[t] = "create_session") => sessions' = sessions
            /\ (InCreate(t) /\ pc'[t] = "idle")
                => sessions' =
                     Append(evict_oldest(
                                cleanup_expired_sessions(local[t].entry, local[t].user_id,
                                                         local[t].entered_at),
                                local[t].user_id),
                            session_data(next_token, local[t].user_id, now))
         ]_vars

\* a thread is inside create_session with the identity at the limit, the
\* lock keeping the other threads out
C7_Witness ==
    \E t \in Threads :
        /\ InCreate(t)
        /\ local[t].oldest # NoToken
        /\ Cardinality(HeldTokens(local[t].entry, "u1")) = MAX_CONCURRENT_SESSIONS
        /\ \A x \in Threads \ {t} : pc[x] = "idle" /\ ~can_acquire(session_lock)

\* the failed attempts of a username that lie inside the trailing window
FailuresInWindow(D, u, t) ==
    {i \in DOMAIN attempts_of(D, u) :
        /\ attempts_of(D, u)[i].success = FALSE
        /\ t - attempts_of(D, u)[i].timestamp < LOCKOUT_DURATION}
AttemptsInWindow(D, u, t) ==
    {i \in DOMAIN attempts_of(D, u) : t - attempts_of(D, u)[i].timestamp < LOCKOUT_DURATION}

\* C8: is_account_locked(identity) returns true if and only if at least
\* MAX_ATTEMPTS (5) of the identity's recorded attempts have success = false
\* and now - timestamp < LOCKOUT_DURATION; successful attempts never count.
C8_LockedIffFiveFailures ==
    locked.call = "is_account_locked"
    => (locked.value <=>
           Cardinality(FailuresInWindow(login_attempts, locked.username, clock)) >= MAX_ATTEMPTS)

\* is_account_locked answered false for a username with five attempts in
\* the window, one of them successful
C8_Witness ==
    /\ locked.call = "is_account_locked"
    /\ locked.value = FALSE
    /\ Cardinality(AttemptsInWindow(login_attempts, locked.username, clock)) >= MAX_ATTEMPTS
    /\ Cardinality(FailuresInWindow(login_attempts, locked.username, clock)) = 4

\* C9: once MAX_ATTEMPTS failures of an identity lie inside the window,
\* is_account_locked returns true, and no call other than a reset of that
\* identity clears the lock while time stands still: recording a successful
\* attempt (or any other attempt) leaves the identity locked.
C9_SuccessKeepsLock ==
    /\ []((/\ locked.call = "is_account_locked"
            /\ Cardinality(FailuresInWindow(login_attempts, locked.username, clock))
                 >= MAX_ATTEMPTS)
           => locked.value = TRUE)
    /\ [][\A u \in Usernames :
            (/\ clock' = clock
             /\ u \in DOMAIN login_attempts'
             /\ Len(attempts_of(login_attempts, u)) >= MAX_ATTEMPTS
             /\ lock_decision(attempts_of(login_attempts, u), clock))
            => /\ lock_decision(attempts_of(login_attempts', u), clock')
               /\ Cardinality(FailuresInWindow(login_attempts', u, clock')) >= MAX_ATTEMPTS
         ]_vars

\* a locked username recorded a successful attempt after its failures, some
\* of them older than others, and is_account_locked still answers true
C9_Witness ==
    /\ locked.call = "is_account_locked"
    /\ locked.value = TRUE
    /\ LET h == attempts_of(login_attempts, locked.username)
       IN  /\ Len(h) > 5
           /\ h[Len(h)].success = TRUE
           /\ h[1].timestamp < h[5].timestamp
           /\ \A i \in 1..5 : h[i].success = FALSE

\* C10: a lock clears by the passage of time alone: once the time since the
\* identity's last failed attempt reaches LOCKOUT_DURATION, is_account_locked
\* returns false, with the failures still stored and no reset or record call.
C10_LockExpires ==
    (/\ locked.call = "is_account_locked"
     /\ \A i \in DOMAIN attempts_of(login_attempts, locked.username) :
           attempts_of(login_attempts, locked.username)[i].success = FALSE
           => clock - attempts_of(login_attempts, locked.username)[i].timestamp >= LOCKOUT_DURATION)
    => locked.value = FALSE

\* five failures are still stored, the last one LOCKOUT_DURATION old, and
\* is_account_locked answers false
C10_Witness ==
    /\ locked.call = "is_account_locked"
    /\ locked.value = FALSE
    /\ LET h == attempts_of(login_attempts, locked.username)
       IN  /\ Len(h) >= 5
           /\ \A i \in DOMAIN h : h[i].success = FALSE
           /\ clock - h[Len(h)].timestamp = LOCKOUT_DURATION

\* C11: reset_login_attempts(identity) clears the identity's whole history
\* and touches no other identity: right after it the identity is not locked
\* and holds no attempt at all; from then on the failures counted against it
\* grow by at most one per call, and only by a failed attempt recorded at
\* the current time, so the lock needs MAX_ATTEMPTS new failures inside one
\* window; a reset of an identity without history changes nothing.
C11_ResetClears ==
    /\ [](locked.call = "reset_login_attempts"
           => /\ locked.username \notin DOMAIN login_attempts
              /\ FailuresInWindow(login_attempts, locked.username, clock) = {}
              /\ ~lock_decision(attempts_of(login_attempts, locked.username), clock))
    /\ [][locked'.call = "reset_login_attempts"
           => /\ \A u \in Usernames \ {locked'.username} :
                    /\ (u \in DOMAIN login_attempts') = (u \in DOMAIN login_attempts)
                    /\ attempts_of(login_attempts', u) = attempts_of(login_attempts, u)
              /\ locked'.username \notin DOMAIN login_attempts
                    => login_attempts' = login_attempts
         ]_vars
    /\ [][\A u \in Usernames :
            (/\ attempts_of(login_attempts', u) # <<>>
             /\ \/ attempts_of(login_attempts', u) # attempts_of(login_attempts, u)
                \/ clock' # clock)
            => LET before == Len(failed_attempts(attempts_of(login_attempts, u), clock))
                   after  == Len(failed_attempts(attempts_of(login_attempts', u), clock'))
                   h      == attempts_of(login_attempts', u)
               IN  after > before
                     => /\ after = before + 1
                        /\ h[Len(h)] = [timestamp |-> clock', success |-> FALSE]
                        /\ locked'.call = "none"
         ]_vars

\* a reset was the last call, its username is gone from the dict, and the
\* other username still holds MAX_ATTEMPTS failures and stays locked
C11_Witness ==
    /\ locked.call = "reset_login_attempts"
    /\ locked.username \notin DOMAIN login_attempts
    /\ \E u \in Usernames \ {locked.username} :
          lock_decision(attempts_of(login_attempts, u), clock)

\* the attempts of a history equal to a given one
Occurrences(history, attempt) == Len(SelectSeq(history, LAMBDA a : a = attempt))

\* C12: for any interleaving of record_login_attempt calls of concurrent
\* threads for one identity, every attempt whose call has returned and that
\* is still inside the window is present in the identity's history, as often
\* as it was recorded; so with MAX_ATTEMPTS failed attempts returned inside
\* the window, is_account_locked answers true.
C12_NoAttemptLost ==
    /\ \A attempt \in DOMAIN returned :
          in_window(attempt, clock)
          => Occurrences(attempts_of(login_attempts, RaceUser), attempt)
               >= returned[attempt]
    /\ (/\ locked.call = "is_account_locked"
        /\ BagSize(returned, {a \in DOMAIN returned :
                                ~a.success /\ in_window(a, clock)}) >= MAX_ATTEMPTS)
       => locked.value = TRUE

\* the fixed order GUEST < USER < ANALYST < ADMIN
Rank == [role \in {"GUEST", "USER", "ANALYST", "ADMIN"} |->
           CASE role = "GUEST" -> 1 [] role = "USER" -> 2
             [] role = "ANALYST" -> 3 [] role = "ADMIN" -> 4]
Higher(from, to) ==
    /\ from \in DOMAIN Rank
    /\ to \in DOMAIN Rank
    /\ Rank[to] > Rank[from]

\* C13 as stated: upgrade_user_role(from, to) returns true if and only if
\* both roles are among GUEST, USER, ANALYST, ADMIN, as given, and 'to' is
\* strictly higher than 'from' in the order GUEST < USER < ANALYST < ADMIN.
C13_UpgradeIffHigher ==
    rbac.op = "upgrade_user_role"
    => (rbac.value <=> Higher(rbac.role, rbac.arg))

\* C13: upgrade_user_role(from, to) returns true if and only if both roles,
\* once upper-cased, are among GUEST, USER, ANALYST, ADMIN and 'to' is
\* strictly higher than 'from' in the order GUEST < USER < ANALYST < ADMIN;
\* the relation is irreflexive, asymmetric and transitive, and a name that
\* is no spelling of a role yields false on either side.
C13_UpgradeIffHigherUpper ==
    /\ rbac.op = "upgrade_user_role"
         => (rbac.value <=> Higher(upper(rbac.role), upper(rbac.arg)))
    /\ \A a \in RoleNames : ~upgrade_user_role_result(a, a)
    /\ \A a, b \in RoleNames :
          upgrade_user_role_result(a, b) => ~upgrade_user_role_result(b, a)
    /\ \A a, b, c \in RoleNames :
          upgrade_user_role_result(a, b) /\ upgrade_user_role_result(b, c)
          => upgrade_user_role_result(a, c)
    /\ \A a, b \in RoleNames :
          (upper(a) \notin DOMAIN Rank \/ upper(b) \notin DOMAIN Rank)
          => ~upgrade_user_role_result(a, b)

\* upgrade_user_role("guest", "ADMIN") has just returned true
C13_Witness ==
    /\ rbac.op = "upgrade_user_role"
    /\ rbac.role = "guest"
    /\ rbac.arg = "ADMIN"
    /\ rbac.value = TRUE

\* C14 as stated: for every role name that is not a key of the static role
\* table, check_permission returns false for every permission and
\* get_role_permissions returns the empty set; for a key of the table,
\* check_permission(role, p) is true exactly when p is in
\* get_role_permissions(role).
C14_FailClosed ==
    /\ (rbac.op = "check_permission" /\ rbac.role \notin DOMAIN ROLE_PERMISSIONS)
         => rbac.value = FALSE
    /\ (rbac.op = "get_role_permissions" /\ rbac.role \notin DOMAIN ROLE_PERMISSIONS)
         => rbac.perms = {}
    /\ (rbac.op = "check_permission" /\ rbac.role \in DOMAIN ROLE_PERMISSIONS)
         => (rbac.value <=> rbac.arg \in get_role_permissions_result(rbac.role))

\* C14: RBAC is fail-closed up to letter case: for every role name whose
\* upper-cased form is not a key of the static role table, check_permission
\* returns false for every permission and get_role_permissions returns the
\* empty set; for every other role name, check_permission(role, p) is true
\* exactly when p is in get_role_permissions(role), which is the table's
\* set for the upper-cased name.
C14_FailClosedUpper ==
    /\ (rbac.op = "check_permission" /\ upper(rbac.role) \notin DOMAIN ROLE_PERMISSIONS)
         => rbac.value = FALSE
    /\ (rbac.op = "get_role_permissions" /\ upper(rbac.role) \notin DOMAIN ROLE_PERMISSIONS)
         => rbac.perms = {}
    /\ (rbac.op = "get_role_permissions" /\ upper(rbac.role) \in DOMAIN ROLE_PERMISSIONS)
         => rbac.perms = ROLE_PERMISSIONS[upper(rbac.role)]
    /\ (rbac.op = "check_permission" /\ upper(rbac.role) \in DOMAIN ROLE_PERMISSIONS)
         => (rbac.value <=> rbac.arg \in get_role_permissions_result(rbac.role))
    /\ \A role \in RoleNames, p \in RolePermission :
          upper(role) \notin DOMAIN ROLE_PERMISSIONS
          => /\ ~check_permission_result(role, p)
             /\ get_role_permissions_result(role) = {}

\* check_permission("MODERATOR", VIEW_PREDICTION), the permission every role
\* of the table holds, has just returned false
C14_Witness ==
    /\ rbac.op = "check_permission"
    /\ rbac.role = "MODERATOR"
    /\ rbac.arg = "VIEW_PREDICTION"
    /\ rbac.value = FALSE

\* the signature of a token is the MAC of its header and payload under
\* SECRET_KEY with the fixed algorithm
Verifies(token) ==
    /\ token.form = "jws"
    /\ token.alg = ALGORITHM
    /\ token.signature = mac(SECRET_KEY, token.alg, token.payload)

\* C15: token round trip: decode_token(generate_token(identity, roles))
\* called before exp returns claims whose identity and roles equal the ones
\* given to generate_token and whose exp equals the issue time plus
\* TOKEN_EXPIRATION.
C15_RoundTrip ==
    (/\ response.op = "decode_token"
     /\ issued.token.form = "jws"
     /\ header_token(wire) = issued.token
     /\ epoch < issued.at + TOKEN_EXPIRATION)
    => /\ response.outcome = "claims"
       /\ response.claims.user_id = issued.user_id
       /\ response.claims.roles = issued.roles
       /\ response.claims.exp = issued.at + TOKEN_EXPIRATION

\* a token issued to u2 for two roles was decoded one tick before its exp
C15_Witness ==
    /\ response.op = "decode_token"
    /\ response.outcome = "claims"
    /\ header_token(wire) = issued.token
    /\ issued.user_id = "u2"
    /\ issued.roles = <<"GUEST", "ANALYST">>
    /\ issued.at > 0
    /\ epoch = issued.at + TOKEN_EXPIRATION - 1

\* C16: decode_token checks the signature first: a token whose signature
\* does not verify, or that is malformed, fails with an invalid-token error
\* whatever its exp is, a past one included; a token whose signature
\* verifies and for which now > exp fails with the expired-token error;
\* claims are returned only when both checks pass, and they are the
\* token's own.
C16_SignatureFirst ==
    response.op = "decode_token"
    => LET token == header_token(wire)
       IN  /\ ~Verifies(token)
                => response.outcome \in InvalidTokenErrors \ {"ExpiredSignatureError"}
           /\ (Verifies(token) /\ epoch > token.payload.exp)
                => response.outcome = "ExpiredSignatureError"
           /\ response.outcome = "claims"
                => /\ Verifies(token)
                   /\ ~(epoch > token.payload.exp)
                   /\ response.claims = token.payload

\* a token altered without the key, with an exp in the past, was decoded
\* and failed as an invalid signature
C16_Witness ==
    /\ response.op = "decode_token"
    /\ response.outcome = "InvalidSignatureError"
    /\ header_token(wire).form = "jws"
    /\ header_token(wire).payload.exp < epoch

\* the union of the RBAC permission sets of a list of roles
PermissionsOfRoles(roles) ==
    UNION {get_role_permissions_result(roles[i]) : i \in DOMAIN roles}

TokenError(token, tnow) ==
    \/ token.form = "empty"
    \/ ~Verifies(token)
    \/ tnow > token.payload.exp

\* C18 as stated: requests carrying an expired token, a token with a bad
\* signature, a malformed token, or no token at all receive the same
\* status and the same response body: each gets what the request without
\* a token gets.
C18_UniformRejection ==
    (response.op = "authenticate" /\ TokenError(header_token(wire), epoch))
    => /\ response.status =
            guard_response(EmptyPart, response.required_roles, epoch).status
       /\ response.body =
            guard_response(EmptyPart, response.required_roles, epoch).body

\* C18: requests carrying an expired token, a token with a bad signature
\* or a malformed token receive the same status 401 and the same body,
\* whatever the sub-reason and whatever roles the route requires, and no
\* user is attached; a request with no token at all receives status 401
\* too, with a body of its own.
C18_UniformTokenErrors ==
    response.op = "authenticate"
    => LET token == header_token(wire)
       IN  /\ (token.form # "empty" /\ TokenError(token, epoch))
                => /\ response.status = 401
                   /\ response.body = "Invalid or expired token"
                   /\ response.user = NoClaims
           /\ token.form = "empty"
                => /\ response.status = 401
                   /\ response.body = "No token provided"
                   /\ response.user = NoClaims

\* the guard has just rejected a verified token that had expired
C18_Witness ==
    /\ response.op = "authenticate"
    /\ response.outcome = "ExpiredSignatureError"
    /\ Verifies(header_token(wire))
    /\ response.status = 401

\* the character classes that occur in a password
ClassesIn(text) ==
    {class \in {"uppercase", "lowercase", "digit", "symbol"} :
        \E i \in DOMAIN text :
           \/ class = "uppercase" /\ text[i] \in Range(UPPERCASE)
           \/ class = "lowercase" /\ text[i] \in Range(LOWERCASE)
           \/ class = "digit" /\ text[i] \in DIGITS
           \/ class = "symbol" /\ text[i] \in SPECIAL}
\* the words of a list that occur in the lower-cased password
WordsIn(text, words) ==
    {word \in words :
        \E i \in 1..Len(text) :
           /\ i + Len(word) - 1 <= Len(text)
           /\ \A k \in 1..Len(word) : lower_char(text[i + k - 1]) = word[k]}
\* what the claim says validate_password returns
Criteria(text) ==
    [length |-> Len(text) >= 12,
     complexity |-> Cardinality(ClassesIn(text)) >= 3,
     no_common_patterns |-> WordsIn(text, common_patterns) = {},
     no_personal_info |-> WordsIn(text, potential_personal_info) = {}]

\* C19 as stated: for every password string validate_password returns a
\* result in which length is true iff the password has at least 12
\* characters, complexity iff at least 3 of the 4 character classes occur,
\* no_common_patterns iff the lower-cased password contains no denylisted
\* substring, no_personal_info iff it contains none of the generic tokens,
\* and overall_strength is the conjunction of the four.
C19_CriteriaExact ==
    assessment.op = "validate_password"
    => LET v == assessment.validation
           c == Criteria(password)
       IN  /\ v.length = c.length
           /\ v.complexity = c.complexity
           /\ v.no_common_patterns = c.no_common_patterns
           /\ v.no_personal_info = c.no_personal_info
           /\ v.overall_strength = (/\ v.length
                                    /\ v.complexity
                                    /\ v.no_common_patterns
                                    /\ v.no_personal_info)

\* C19: for every non-empty password string validate_password returns a
\* result in which length is true iff the password has at least 12
\* characters, complexity iff at least 3 of the 4 character classes occur,
\* no_common_patterns iff the lower-cased password contains no denylisted
\* substring, no_personal_info iff it contains none of the generic tokens;
\* for the empty password all four are false; overall_strength is always
\* the conjunction of the four, and a result is always returned.
C19_CriteriaExactNonEmpty ==
    assessment.op = "validate_password"
    => LET v == assessment.validation
           c == Criteria(password)
       IN  /\ password # <<>>
                => /\ v.length = c.length
                   /\ v.complexity = c.complexity
                   /\ v.no_common_patterns = c.no_common_patterns
                   /\ v.no_personal_info = c.no_personal_info
           /\ password = <<>>
                => /\ ~v.length
                   /\ ~v.complexity
                   /\ ~v.no_common_patterns
                   /\ ~v.no_personal_info
           /\ v.overall_strength = (/\ v.length
                                    /\ v.complexity
                                    /\ v.no_common_patterns
                                    /\ v.no_personal_info)

\* validate_password has just found Tr0ub4dor&3XQ! strong
C19_Witness ==
    /\ assessment.op = "validate_password"
    /\ password = <<"T", "r", "0", "u", "b", "4", "d", "o", "r",
                    "&", "3", "X", "Q", "!">>
    /\ assessment.validation.overall_strength = TRUE

\* C20: get_password_strength_feedback is derived from validate_password:
\* for each of the four criteria the feedback list contains the criterion's
\* remediation message if and only if validate_password reports the
\* criterion as failed, so the list is empty exactly when overall_strength
\* is true.
C20_FeedbackIffFailed ==
    assessment.op = "get_password_strength_feedback"
    => LET v == validate_password_result(password)
           given == Range(assessment.feedback)
       IN  /\ LengthMessage \in given <=> ~v.length
           /\ ComplexityMessage \in given <=> ~v.complexity
           /\ CommonPatternsMessage \in given <=> ~v.no_common_patterns
           /\ PersonalInfoMessage \in given <=> ~v.no_personal_info
           /\ assessment.feedback = <<>> <=> v.overall_strength

\* a digest as hash_password writes it: scheme, cost, a whole salt and a
\* whole hash
WellFormed(hashed) ==
    /\ hashed.form = "bcrypt"
    /\ hashed.salt \in Salts
    /\ hashed.hash.chars = 31
\* the digest is one that hash_password(plain_password) can return
ProducedFrom(hashed, plain_password) ==
    \E salt \in Salts :
       hash_password_result(plain_password, salt) =
          [outcome |-> "returned", value |-> hashed]

\* C21: verify_password(password, digest) returns true when digest was
\* produced by hash_password(password), returns false without raising when
\* a well-formed digest does not match the password, and raises an error
\* (rather than returning false) only when the digest is malformed: a call
\* on a malformed digest raises, and no other call does.
C21_RaisesOnMalformed ==
    verdict.op = "verify_password"
    => /\ ProducedFrom(digest, verdict.password)
          => verdict.outcome = "returned" /\ verdict.value
       /\ WellFormed(digest) /\ ~ProducedFrom(digest, verdict.password)
          => verdict.outcome = "returned" /\ ~verdict.value
       /\ verdict.outcome = "raised" <=> ~WellFormed(digest)

\* C21, amended: verify_password(password, digest) returns true when digest
\* was produced by hash_password(password) and returns false without
\* raising in every other case: when a well-formed digest does not match
\* the password and also when the digest is malformed.
C21_NeverRaises ==
    verdict.op = "verify_password"
    => /\ verdict.outcome = "returned"
       /\ ProducedFrom(digest, verdict.password) => verdict.value
       /\ WellFormed(digest) /\ ~ProducedFrom(digest, verdict.password)
          => ~verdict.value
       /\ ~WellFormed(digest) => ~verdict.value

\* a digest cut inside its salt, for which bcrypt raises ValueError, was
\* verified and answered with False
C21_Witness ==
    /\ verdict.op = "verify_password"
    /\ verdict.password = "hunter2"
    /\ digest.form = "bcrypt"
    /\ digest.salt = CutSalt
    /\ verdict.outcome = "returned"
    /\ verdict.value = FALSE

\* the code of a secret at a time step, if the secret has one
CodeAt(secret, t) == generate_otp(secret, t)
\* the code is the code of some step at most window steps from step
InWindow(secret, otp, step, window) ==
    \E t \in 0..(FirstStep + MaxSteps + 3) :
       /\ t - step <= window
       /\ step - t <= window
       /\ CodeAt(secret, t).outcome = "code"
       /\ otp = CodeAt(secret, t).code

\* C22: verify_totp(secret, code, window) accepts a code if and only if it
\* equals the code of some time step t with |t - current_step| <= window
\* (step = 30 s): with window = 1 the codes for now-30s, now and now+30s are
\* accepted and the code for now-90s is rejected; any internal error is
\* reported as false, not as an exception.
C22_WindowExact ==
    verdict.op = "verify_totp"
    => /\ verdict.outcome = "returned"
       /\ verdict.value <=> InWindow(verdict.secret, user_code, steps, verdict.window)
       /\ byte_secret(verdict.secret).outcome # "bytes" => ~verdict.value
       /\ verdict.window = 1 /\ byte_secret(verdict.secret).outcome = "bytes"
          => /\ \A ahead \in {-1, 0, 1} :
                   user_code = CodeAt(verdict.secret, steps + ahead).code
                   => verdict.value
             /\ user_code = CodeAt(verdict.secret, steps - 3).code
                   => ~verdict.value

\* with window = 1 the code of the step after the current one was accepted
C22_Witness ==
    /\ verdict.op = "verify_totp"
    /\ verdict.window = 1
    /\ verdict.secret = "jbswy3dpehpk3pxp"
    /\ user_code = CodeAt("JBSWY3DPEHPK3PXP", steps + 1).code
    /\ verdict.value = TRUE

\* C23: create_session purges the identity's expired sessions before it
\* counts: it removes every expired session of the identity; if the
\* identity holds MAX_CONCURRENT_SESSIONS sessions of which at least one
\* has age greater than SESSION_TIMEOUT, it evicts no non-expired session;
\* and a session that validate_session would still accept at that instant
\* is never removed by the purge (it can only go as the evicted oldest).
C23_PurgeBeforeCount ==
    [][\A u \in Users :
          (pc'[MainThread] = "create_session" /\ create_session_enter(MainThread, u))
          => LET held == HeldTokens(sessions, u)
                 live == LiveTokens(sessions, u, now)
             IN  /\ (held \ live) \cap Keys(sessions') = {}
                 /\ (Cardinality(held) = MAX_CONCURRENT_SESSIONS /\ held # live)
                    => /\ live \subseteq Keys(sessions')
                       /\ local'[MainThread].oldest = NoToken
                 /\ \A tok \in live :
                       tok \notin Keys(sessions') => tok = local'[MainThread].oldest
      ]_vars

\* create_session found three sessions of the identity, one of them expired
\* and two that validate_session would accept, and removed the expired one
\* only
C23_Witness ==
    /\ pc[MainThread] = "create_session"
    /\ LET u == local[MainThread].user_id
           held == HeldTokens(local[MainThread].entry, u)
           live == LiveTokens(local[MainThread].entry, u, now)
       IN  /\ local[MainThread].entered_at = now
           /\ Cardinality(held) = MAX_CONCURRENT_SESSIONS
           /\ Cardinality(live) = 2
           /\ HeldTokens(sessions, u) = live

\* every session of S but the one named tok is in T as it was
OthersKept(S, T, tok) ==
    \A i \in DOMAIN S :
       S[i].token = tok \/ \E j \in DOMAIN T : T[j] = S[i]

\* C28: session operations are isolated per identity: create_session for
\* identity A (its purge, its eviction and its insertion) never removes or
\* modifies a session of another identity B, even when B's sessions are
\* expired or older than all of A's; validate_session and
\* _invalidate_session touch only the session named by the token.
C28_SessionsIsolated ==
    [][sessions' # sessions
       => /\ \A u \in Users :
                \/ /\ pc'[MainThread] = "create_session"
                   /\ create_session_enter(MainThread, u)
                \/ /\ pc[MainThread] = "create_session"
                   /\ local[MainThread].user_id = u
                   /\ create_session_insert(MainThread)
                => \A v \in Users \ {u} :
                      user_sessions(sessions', v) = user_sessions(sessions, v)
          /\ \A tok \in TokenIds :
                \/ /\ ret'.session_token = tok
                   /\ validate_session(MainThread, tok)
                \/ /\ ret'.value = None
                   /\ pc'[MainThread] = "idle"
                   /\ invalidate_session(MainThread, tok)
                => OthersKept(sessions, sessions', tok)
      ]_vars

\* create_session for u1 purged an expired session of u1 while u2 holds an
\* expired session that is older than every session of u1, and left it alone
C28_Witness ==
    /\ pc[MainThread] = "create_session"
    /\ local[MainThread].user_id = "u1"
    /\ sessions # local[MainThread].entry
    /\ \E i \in DOMAIN sessions :
          /\ sessions[i].user_id = "u2"
          /\ is_expired(sessions[i], now)
          /\ \A j \in DOMAIN local[MainThread].entry :
                local[MainThread].entry[j].user_id = "u1"
                => local[MainThread].entry[j].created_at >= sessions[i].created_at

\* C24: immediately after record_login_attempt(identity, success) returns,
\* the identity's stored history consists of exactly the previously stored
\* entries with now - timestamp < LOCKOUT_DURATION (successes and failures
\* alike, in their original order) followed by one new entry carrying the
\* call's time and success flag.
C24_RecordPrunesAndAppends ==
    [][\A u \in Usernames, success \in BOOLEAN :
          (/\ clock' = clock
           /\ locked'.call = "none"
           /\ record_login_attempt(u, success))
          => /\ u \in DOMAIN login_attempts'
             /\ login_attempts'[u] =
                  SelectSeq(attempts_of(login_attempts, u),
                            LAMBDA a : clock - a.timestamp < LOCKOUT_DURATION)
                  \o <<[timestamp |-> clock, success |-> success]>>
      ]_vars

\* alice's history after a record at clock 3: an earlier success and an
\* earlier failure of clock 1 and 2 in their order, then the new entry;
\* an entry of clock 0 would have been pruned
C24_Witness ==
    /\ clock = 3
    /\ locked = NoAnswer
    /\ "alice" \in DOMAIN login_attempts
    /\ login_attempts["alice"] = <<[timestamp |-> 1, success |-> TRUE],
                                   [timestamp |-> 2, success |-> FALSE],
                                   [timestamp |-> 3, success |-> FALSE]>>

\* the failures of a history inside the trailing window, counted directly
FailuresSince(history, t) ==
    Cardinality({i \in DOMAIN history :
                    ~history[i].success /\ t - history[i].timestamp < LOCKOUT_DURATION})

\* C26: pruning is invisible to the lock decision: for every sequence of
\* record_login_attempt, is_account_locked and reset_login_attempts calls
\* with non-decreasing time, is_account_locked computed from the pruned
\* stored history returns the same value as a reference tracker that never
\* prunes and counts failures in the trailing LOCKOUT_DURATION over the
\* complete history since the last reset.
C26_PruningInvisible ==
    locked.call = "is_account_locked"
    => locked.value =
          (FailuresSince(attempts_of(reference, locked.username), clock) >= MAX_ATTEMPTS)

\* the reference holds five failures of alice, of which the tracker has
\* pruned one; the four inside the window do not lock the account
C26_Witness ==
    /\ locked.call = "is_account_locked"
    /\ locked.username = "alice"
    /\ locked.value = FALSE
    /\ Len(attempts_of(reference, "alice")) = MAX_ATTEMPTS
    /\ \A i \in 1..MAX_ATTEMPTS : ~reference["alice"][i].success
    /\ Len(attempts_of(login_attempts, "alice")) = MAX_ATTEMPTS - 1
    /\ FailuresSince(reference["alice"], clock) = MAX_ATTEMPTS - 1

\* C27: attempt tracking is isolated per identity: record_login_attempt,
\* is_account_locked and reset_login_attempts for identity A leave the
\* stored history of every other identity B unchanged, so they never change
\* the value of is_account_locked(B).
C27_TrackerIsolated ==
    [][clock' = clock
       => \A u \in Usernames :
             \/ /\ locked'.call = "none"
                /\ \E success \in BOOLEAN : record_login_attempt(u, success)
             \/ /\ locked'.username = u
                /\ (is_account_locked(u) \/ reset_login_attempts(u))
             => \A v \in Usernames \ {u} :
                   /\ v \in DOMAIN login_attempts' <=> v \in DOMAIN login_attempts
                   /\ attempts_of(login_attempts', v) = attempts_of(login_attempts, v)
                   /\ lock_decision(attempts_of(login_attempts', v), clock')
                        = lock_decision(attempts_of(login_attempts, v), clock)
      ]_vars

\* alice's attempts were reset while bob is locked out by five failures
C27_Witness ==
    /\ locked.call = "reset_login_attempts"
    /\ locked.username = "alice"
    /\ "alice" \notin DOMAIN login_attempts
    /\ lock_decision(attempts_of(login_attempts, "bob"), clock)

\* C25: the route guard never acts on an unverified payload: the wrapped
\* handler is invoked, and request.user is set, only after decode_token has
\* returned successfully for the presented token and the role requirement
\* (if any) has passed; on every rejection path (an answer of 401 or 403)
\* the handler is not called and request.user is not assigned.
C25_GuardBeforeRoute ==
    response.op = "authenticate"
    => LET decoded == decode_token_result(header_token(wire), epoch)
       IN  /\ (response.called \/ response.user # NoClaims)
                => /\ decoded.outcome = "claims"
                   /\ response.user = decoded.claims
                   /\ \/ response.required_roles = <<>>
                      \/ Range(response.required_roles)
                            \cap Range(decoded.claims.roles) # {}
           /\ response.status \in {401, 403}
                => /\ ~response.called
                   /\ response.user = NoClaims

\* C29: the static permission table is monotone along the role order:
\* whenever upgrade_user_role(a, b) is true, get_role_permissions(a) is a
\* strict subset of get_role_permissions(b), so an upgrade never removes a
\* permission; and no RBAC operation changes the table.
C29_TableMonotone ==
    /\ role_permissions = ROLE_PERMISSIONS
    /\ \A a \in RoleNames, b \in RoleNames :
          upgrade_user_role_result(a, b)
          => /\ get_role_permissions_result(a) \subseteq get_role_permissions_result(b)
             /\ get_role_permissions_result(a) # get_role_permissions_result(b)
    /\ (rbac.op = "upgrade_user_role" /\ rbac.value)
         => /\ table_get(upper(rbac.role)) \subseteq table_get(upper(rbac.arg))
            /\ table_get(upper(rbac.arg)) \ table_get(upper(rbac.role)) # {}

\* upgrade_user_role("user", "Analyst") has just returned true after earlier
\* calls, and ANALYST holds a permission that USER lacks
C29_Witness ==
    /\ rbac.op = "upgrade_user_role"
    /\ rbac.role = "user"
    /\ rbac.arg = "Analyst"
    /\ rbac.value = TRUE
    /\ "UPDATE_PREDICTION" \in table_get("ANALYST") \ table_get("USER")

\* C30: get_active_sessions is linearizable with the other session
\* operations: when it runs concurrently with create_session,
\* validate_session or _invalidate_session on other threads, it completes
\* without error and returns a count that the identity's session set
\* actually had at some single moment between the call's start and its
\* return.
C30_ScanLinearizable ==
    ret.call = "get_active_sessions"
    => /\ ret.error = ""
       /\ ret.value \in ret.counts
====
